---- MODULE Spec2Model ----
(***************************************************************************)
(* A model of the content engine of the okolica bot (src/parser.py):       *)
(* the retried fetch, the source adapters, the merger and the two-phase    *)
(* matcher/ranker.                                                         *)
(*                                                                         *)
(* Strings are sequences of Unicode code points, so that lower-casing,     *)
(* substring tests, regular-expression scans, URL canonicalisation and the *)
(* lexicographic order of titles are computed as Python computes them.     *)
(***************************************************************************)
EXTENDS Integers, Sequences, FiniteSets, TLC

VARIABLES
    pc,            \* position of the operation under study
    morph,         \* _morph_analyzer is available (TRUE) or False (FALSE)
    articles,      \* _run_search: the pool
    query_words,   \* _run_search: the term list
    limit,         \* _run_search: the limit
    full_match,    \* _run_search: local list of (cnt, a), after its sort
    any_match,     \* _run_search: local list of (cnt, a), after its sort
    result,        \* the value returned by the operation
    rss_articles,     \* what _fetch_okolica_rss returned
    html_articles,    \* what _fetch_okolica_html returned
    gazeta_articles,  \* what _fetch_okolica_gazeta returned
    attempt,       \* _make_request: the loop index
    last_error,    \* _make_request: the local last_error
    gets,          \* _make_request: the outcome of every requests.get so far
    sleeps,        \* _make_request: every time.sleep so far, in half seconds
    raised,        \* the error the operation raised, "None" while it has not
    fn,            \* the operation under study: "only", "news", "html" or "none"
    query,         \* the query handed to the search function
    source_state,  \* per source adapter: "idle", "ok", or "failed" once a fetch of it failed
    sec,           \* _fetch_okolica_html: which call of _fetch_okolica_html_from_path
    page,          \* the loop variable page of the crawl that is running
    broke,         \* the page loop was left by its break
    section_articles, \* _fetch_okolica_html_from_path: the local articles
    all_articles,  \* the local all_articles of the crawl that is running
    seen_urls,     \* _fetch_okolica_html: seen_urls
    seen_titles,   \* _fetch_okolica_gazeta: seen_titles
    html_log,      \* every page request of the crawl that is studied on its own
    lemma_cache,   \* _lemma_cache, shared by all threads of the pool
    calls,         \* per thread: where its _get_lemma call stands, its w, its result
    store,         \* the rows of the table articles, in order of insertion
    added,         \* every url add_article has been called with
    db_ret,        \* the last call made to the store under study and what it returned
    db_calls,      \* how many calls have been made to the store under study
    cron_secret,   \* os.getenv("CRON_SECRET")
    bot_token,     \* BOT_TOKEN
    cron_req,      \* the last GET of the cron endpoint and how it was answered
    cron_requests, \* how many GETs the cron endpoint has answered
    sent,          \* every notification sent: the user and the url of the article
    term,          \* _word_matches: query_word
    text,          \* _word_matches: searchable
    matches,       \* _word_matches: where the call stands and what it returned
    users_table,   \* the table users: per telegram_id, whether it has a row and is_subscribed
    latest,        \* what fetch_latest returns at present
    runs,          \* per run of the notification check: its position and its locals
    send_log,      \* every send_message of a notification run: run, user, url, whether it went through
    asked          \* per telegram_id: the last of /subscribe and /unsubscribe that was confirmed

varsRanker == <<morph, articles, query_words, limit, full_match, any_match>>

varsSearch == <<varsRanker, result>>

varsSources == <<rss_articles, html_articles, gazeta_articles>>

varsRequest == <<attempt, last_error, gets, sleeps, raised>>

varsCrawl == <<sec, page, broke, section_articles, all_articles, seen_urls, seen_titles,
               html_log>>

varsPipeline == <<fn, query, source_state>>

varsCache == <<lemma_cache, calls>>

varsStore == <<store, added, db_ret, db_calls>>

varsCron == <<cron_secret, bot_token, cron_req, cron_requests, sent>>

varsMatch == <<term, text, matches>>

varsNotify == <<users_table, latest, runs, send_log, asked>>

\* The state outside the content pipeline.
varsServices == <<varsCache, varsStore, varsCron, varsMatch, varsNotify>>

vars == <<pc, varsSearch, varsSources, varsRequest, varsCrawl, varsPipeline, varsServices>>

(***************************************************************************)
(* Bounds of the model.                                                    *)
(***************************************************************************)
MaxPool == 2       \* longest pool handed to _run_search
MaxTerms == 2      \* longest term list handed to _run_search
MaxLimit == 2      \* largest limit handed to _run_search
MaxRss == 2        \* longest RSS list handed to _merge_okolica_sources
MaxHtml == 2       \* longest HTML list handed to _merge_okolica_sources
MaxGazeta == 2     \* longest archive list handed to _merge_okolica_sources
MaxHtmlPages == 3      \* pages of the main listing; stands for OKOLICA_HTML_PAGES
MaxCategoryPages == 2  \* pages of a category; stands for OKOLICA_CATEGORY_PAGES
MaxGazetaPages == 2    \* pages of the archive; stands for OKOLICA_GAZETA_PAGES
MaxThreads == 2        \* threads of the pool that run searches at one time
MaxQueryWords == 2     \* most words of a query handed to _extract_and_expand_query

(***************************************************************************)
(* Strings.                                                                *)
(***************************************************************************)
Min(a, b) == IF a <= b THEN a ELSE b

Max(a, b) == IF a >= b THEN a ELSE b

\* str.lower() on one code point: A-Z, the Cyrillic capitals and the letter Yo.
LowerChar(c) ==
    IF c \in 65..90 THEN c + 32
    ELSE IF c \in 1040..1071 THEN c + 32
    ELSE IF c = 1025 THEN 1105
    ELSE c

Lower(s) == [i \in 1..Len(s) |-> LowerChar(s[i])]

\* Python's "a in b" for strings.
IsSubstring(a, b) ==
    \E i \in 0..(Len(b) - Len(a)) : SubSeq(b, i + 1, i + Len(a)) = a

\* Python's a < b for strings: code point by code point, a proper prefix first.
StrLess(a, b) ==
    \E i \in 1..(Min(Len(a), Len(b)) + 1) :
        /\ \A j \in 1..(i - 1) : a[j] = b[j]
        /\ \/ i > Len(a) /\ i <= Len(b)
           \/ i <= Len(a) /\ i <= Len(b) /\ a[i] < b[i]

StrLeq(a, b) == a = b \/ StrLess(a, b)

\* Mutant of Take: the slice keeps one record too many (s[:n + 1]).
TakeOneMore(s, n) == SubSeq(s, 1, Min(n + 1, Len(s)))

\* Mutant of Take: the slice stops one element early.
TakeOneLess(s, n) == SubSeq(s, 1, Min(n - 1, Len(s)))

\* s[:n] for n >= 0.
Take(s, n) == SubSeq(s, 1, Min(n, Len(s)))

\* The character class [а-яёa-z] of the word scan of _word_matches.
IsLetter(c) == c \in 1072..1103 \/ c = 1105 \/ c \in 97..122

\* re.findall(r"[а-яёa-z]{2,}", s): the maximal runs of letters of length >= 2.
WordsInText(s) ==
    { SubSeq(s, i, j) : <<i, j>> \in
        { p \in (1..Len(s)) \X (1..Len(s)) :
            /\ p[2] - p[1] + 1 >= 2
            /\ \A k \in p[1]..p[2] : IsLetter(s[k])
            /\ (p[1] = 1 \/ ~IsLetter(s[p[1] - 1]))
            /\ (p[2] = Len(s) \/ ~IsLetter(s[p[2] + 1])) } }

(***************************************************************************)
(* Words and titles of the model's vocabulary.                             *)
(***************************************************************************)
S_win == <<119, 105, 110>>                     \* "win"
S_cup == <<99, 117, 112>>                      \* "cup"
S_day == <<100, 97, 121>>                      \* "day"
S_won == <<119, 111, 110>>                     \* "won"
T_WinCup == <<87, 105, 110, 32, 99, 117, 112>> \* "Win cup"
T_CupDay == <<67, 117, 112, 32, 100, 97, 121>> \* "Cup day"
T_HeWon == <<72, 101, 32, 119, 111, 110>>      \* "He won"
S_empty == <<>>                                \* ""
S_space == <<32>>                              \* " "

(***************************************************************************)
(* Lemmas.                                                                 *)
(***************************************************************************)
\* The Russian words of the model.
W_stihi == <<1089, 1090, 1080, 1093, 1080>>   \* "стихи"
W_stih == <<1089, 1090, 1080, 1093>>   \* "стих"
W_poeziya == <<1087, 1086, 1101, 1079, 1080, 1103>>   \* "поэзия"
\* "стихотворение"
W_stihotvorenie ==
    <<1089, 1090, 1080, 1093, 1086, 1090, 1074, 1086, 1088, 1077, 1085, 1080, 1077>>
W_ocherk == <<1086, 1095, 1077, 1088, 1082>>   \* "очерк"
W_istoriya == <<1080, 1089, 1090, 1086, 1088, 1080, 1103>>   \* "история"
W_rasskaz == <<1088, 1072, 1089, 1089, 1082, 1072, 1079>>   \* "рассказ"
W_statya == <<1089, 1090, 1072, 1090, 1100, 1103>>   \* "статья"
W_pobeda == <<1087, 1086, 1073, 1077, 1076, 1072>>   \* "победа"
W_prazdnik == <<1087, 1088, 1072, 1079, 1076, 1085, 1080, 1082>>   \* "праздник"
W_shkola == <<1096, 1082, 1086, 1083, 1072>>   \* "школа"
W_shkoly == <<1096, 1082, 1086, 1083, 1099>>   \* "школы"
W_Shkola == <<1064, 1082, 1086, 1083, 1072>>   \* "Школа"
W_chto == <<1095, 1090, 1086>>   \* "что"
W_ya == <<1103>>   \* "я"
W_konkurse == <<1082, 1086, 1085, 1082, 1091, 1088, 1089, 1077>>   \* "конкурсе"
W_konkurs == <<1082, 1086, 1085, 1082, 1091, 1088, 1089>>   \* "конкурс"
W_tatarske == <<1090, 1072, 1090, 1072, 1088, 1089, 1082, 1077>>   \* "татарске"
W_tatarsk == <<1090, 1072, 1090, 1072, 1088, 1089, 1082>>   \* "татарск"

\* The inflected forms among the model's words, with their dictionary forms.
MORPH_FORMS ==
    << [form |-> S_won, lemma |-> S_win],
       [form |-> W_stihi, lemma |-> W_stih],
       [form |-> W_shkoly, lemma |-> W_shkola],
       [form |-> W_konkurse, lemma |-> W_konkurs],
       [form |-> W_tatarske, lemma |-> W_tatarsk] >>

\* The analyzer's parse(word)[0].normal_form, for the words it knows: an
\* inflected form goes to its dictionary form, any other word to itself.
MorphNormalForm(w) ==
    IF \E i \in 1..Len(MORPH_FORMS) : MORPH_FORMS[i].form = w
    THEN MORPH_FORMS[CHOOSE i \in 1..Len(MORPH_FORMS) : MORPH_FORMS[i].form = w].lemma
    ELSE w

NormalizeWord(word) ==
    IF ~morph THEN Lower(word) ELSE MorphNormalForm(Lower(word))

\* _get_lemma: the cache only remembers _normalize_word(w) for w = word.lower(),
\* so a sequential lookup returns that value whether or not it was cached.
GetLemma(word) == NormalizeWord(Lower(word))

(***************************************************************************)
(* Matching and ranking.                                                   *)
(***************************************************************************)
\* Mutant of WordMatches: the three-character prefix rule is left out.
WordMatchesNoPrefix(query_word, searchable) ==
    LET searchable_lower == Lower(searchable)
        query_lemma == GetLemma(query_word)
    IN  \/ IsSubstring(query_word, searchable_lower)
        \/ \E w \in WordsInText(searchable_lower) :
              LET word_lemma == GetLemma(w)
              IN  \/ query_lemma = word_lemma
                  \/ IsSubstring(query_word, word_lemma)
                  \/ IsSubstring(word_lemma, query_word)

WordMatches(query_word, searchable) ==
    LET searchable_lower == Lower(searchable)
        query_lemma == GetLemma(query_word)
    IN  \/ IsSubstring(query_word, searchable_lower)
        \/ \E w \in WordsInText(searchable_lower) :
              LET word_lemma == GetLemma(w)
              IN  \/ query_lemma = word_lemma
                  \/ IsSubstring(query_word, word_lemma)
                  \/ IsSubstring(word_lemma, query_word)
                  \/ /\ Len(query_lemma) >= 3
                     /\ Len(word_lemma) >= 3
                     /\ SubSeq(query_lemma, 1, 3) = SubSeq(word_lemma, 1, 3)

CountMatches(words, searchable) ==
    Cardinality({ i \in 1..Len(words) : WordMatches(words[i], searchable) })

\* f"{a['title']} {a.get('summary', '')} {a.get('_fulltext', '')}"
Searchable(a) == a.title \o S_space \o a.summary \o S_space \o a.fulltext

\* all(_word_matches(w, searchable) for w in query_words)
AllMatch(words, a) ==
    \A i \in 1..Len(words) : WordMatches(words[i], Searchable(a))

\* Mutant of KeyLess: the sort key is the match count alone.
KeyLessByCount(x, y) == x.cnt > y.cnt

\* The sort key (-x[0], x[1]["title"]) and Python's order on such tuples.
KeyLess(x, y) ==
    \/ x.cnt > y.cnt
    \/ x.cnt = y.cnt /\ StrLess(x.a.title, y.a.title)

\* list.sort is stable: an element goes after every element whose key is not
\* greater than its own.
RECURSIVE InsertByKey(_, _)
InsertByKey(sorted, x) ==
    IF sorted = <<>> THEN <<x>>
    ELSE IF KeyLess(x, Head(sorted)) THEN <<x>> \o sorted
    ELSE <<Head(sorted)>> \o InsertByKey(Tail(sorted), x)

RECURSIVE SortByKey(_)
SortByKey(s) ==
    IF s = <<>> THEN <<>>
    ELSE InsertByKey(SortByKey(SubSeq(s, 1, Len(s) - 1)), s[Len(s)])

\* The record a result carries: title, url and summary, without _fulltext.
Strip(a) == [title |-> a.title, url |-> a.url, summary |-> a.summary]

StripAll(scored) == [i \in 1..Len(scored) |-> Strip(scored[i].a)]

\* The (cnt, a) pairs of the records of kept, in their order.
Scored(kept, words) ==
    [i \in 1..Len(kept) |->
        [cnt |-> CountMatches(words, Searchable(kept[i])), a |-> kept[i]]]

FullMatchList(pool, words) ==
    LET keep(a) == AllMatch(words, a)
    IN  SortByKey(Scored(SelectSeq(pool, keep), words))

AnyMatchList(pool, words) ==
    LET keep(a) == CountMatches(words, Searchable(a)) > 0
    IN  SortByKey(Scored(SelectSeq(pool, keep), words))

\* Mutant of RunSearch: the early return of the full-match phase is missing,
\* so the any-match phase always runs and decides the result.
RunSearchNoSkip(pool, words, lim) ==
    IF words = <<>>
    THEN [result |-> <<>>, full_match |-> <<>>, any_match |-> <<>>]
    ELSE LET fm == FullMatchList(pool, words)
             am == AnyMatchList(pool, words)
         IN  [result |-> StripAll(Take(am, lim)),
              full_match |-> fm, any_match |-> am]

\* Mutant of RunSearch: the "if not query_words" guard is missing.
RunSearchNoGuard(pool, words, lim) ==
    LET fm == FullMatchList(pool, words)
    IN  IF fm # <<>>
        THEN [result |-> StripAll(Take(fm, lim)),
              full_match |-> fm, any_match |-> <<>>]
        ELSE LET am == AnyMatchList(pool, words)
             IN  [result |-> StripAll(Take(am, lim)),
                  full_match |-> fm, any_match |-> am]

\* _run_search, with its locals: what it returns and the two lists it built.
RunSearch(pool, words, lim) ==
    IF words = <<>>
    THEN [result |-> <<>>, full_match |-> <<>>, any_match |-> <<>>]
    ELSE LET fm == FullMatchList(pool, words)
         IN  IF fm # <<>>
             THEN [result |-> StripAll(Take(fm, lim)),
                   full_match |-> fm, any_match |-> <<>>]
             ELSE LET am == AnyMatchList(pool, words)
                  IN  [result |-> StripAll(Take(am, lim)),
                       full_match |-> fm, any_match |-> am]

(***************************************************************************)
(* The ranker under study: a pool, a term list and a limit are drawn, and  *)
(* one step runs _run_search on them.                                      *)
(***************************************************************************)
U_a == <<104, 116, 116, 112, 115, 58, 47, 47, 97>>   \* "https://a"
U_b == <<104, 116, 116, 112, 115, 58, 47, 47, 98>>   \* "https://b"

PoolRecords ==
    { [title |-> T_WinCup, url |-> U_a, summary |-> S_empty, fulltext |-> S_empty],
      [title |-> S_win, url |-> U_b, summary |-> S_empty, fulltext |-> S_cup],
      [title |-> T_CupDay, url |-> U_a, summary |-> S_day, fulltext |-> S_empty],
      [title |-> T_HeWon, url |-> U_b, summary |-> S_empty, fulltext |-> S_empty] }

TermVocabulary == {S_win, S_cup, S_day}

SeqsUpTo(S, n) == UNION { [1..k -> S] : k \in 0..n }

\* The variables of an operation that is not under study keep these values.
IdleSearch ==
    /\ morph = FALSE
    /\ articles = <<>>
    /\ query_words = <<>>
    /\ limit = 0
    /\ full_match = <<>>
    /\ any_match = <<>>
    /\ result = <<>>

IdleSources ==
    /\ rss_articles = <<>>
    /\ html_articles = <<>>
    /\ gazeta_articles = <<>>

IdleRequest ==
    /\ attempt = 0
    /\ last_error = "None"
    /\ gets = <<>>
    /\ sleeps = <<>>
    /\ raised = "None"

Sources == {"rss", "html", "gazeta"}

IdleCrawl ==
    /\ sec = 1
    /\ page = 1
    /\ broke = FALSE
    /\ section_articles = <<>>
    /\ all_articles = <<>>
    /\ seen_urls = {}
    /\ seen_titles = {}
    /\ html_log = <<>>

IdlePipeline ==
    /\ fn = "none"
    /\ query = <<>>
    /\ source_state = [x \in Sources |-> "idle"]

Threads == 1..MaxThreads

IdleCache ==
    /\ lemma_cache = <<>>
    /\ calls = [t \in Threads |-> [at |-> "idle", w |-> <<>>, ret |-> <<>>]]

\* os.getenv of a variable: unset (None), or set to a value.
Unset == [set |-> FALSE, value |-> <<>>]

\* No call of the article store has been made.
NoDbCall == [op |-> "none", url |-> <<>>, none |-> TRUE, id |-> 0, found |-> FALSE]

IdleStore ==
    /\ store = <<>>
    /\ added = {}
    /\ db_ret = NoDbCall
    /\ db_calls = 0

\* No GET has been answered.
NoCronRequest == [auth |-> <<>>, status |-> 0, started |-> FALSE]

IdleCron ==
    /\ cron_secret = Unset
    /\ bot_token = Unset
    /\ cron_req = NoCronRequest
    /\ cron_requests = 0
    /\ sent = {}

\* _word_matches has not been called.
NoMatchCall == [at |-> "idle", ret |-> FALSE]

IdleMatch ==
    /\ term = <<>>
    /\ text = <<>>
    /\ matches = NoMatchCall

MaxUsers == 2
MaxRuns == 2

UserIds == 1..MaxUsers
RunIds == 1..MaxRuns

\* A telegram_id without a row in the table users.
NoUser == [known |-> FALSE, subscribed |-> FALSE]

\* A notification run that has not started.
IdleRun ==
    [at |-> "idle", kind |-> "none", articles |-> <<>>, users |-> <<>>, i |-> 1, j |-> 1,
     new |-> <<>>]

IdleNotify ==
    /\ users_table = [u \in UserIds |-> NoUser]
    /\ latest = <<>>
    /\ runs = [r \in RunIds |-> IdleRun]
    /\ send_log = <<>>
    /\ asked = [u \in UserIds |-> "none"]

IdleServices == IdleCache /\ IdleStore /\ IdleCron /\ IdleMatch /\ IdleNotify

InitSearch ==
    /\ pc = "search"
    /\ morph \in BOOLEAN
    /\ articles \in SeqsUpTo(PoolRecords, MaxPool)
    /\ query_words \in SeqsUpTo(TermVocabulary, MaxTerms)
    /\ limit \in 0..MaxLimit
    /\ full_match = <<>>
    /\ any_match = <<>>
    /\ result = <<>>
    /\ IdleSources
    /\ IdleRequest
    /\ IdleCrawl
    /\ IdleServices
    /\ IdlePipeline

DoRunSearch ==
    /\ pc = "search"
    /\ LET r == RunSearch(articles, query_words, limit)
       IN  /\ result' = r.result
           /\ full_match' = r.full_match
           /\ any_match' = r.any_match
    /\ pc' = "searched"
    /\ UNCHANGED <<morph, articles, query_words, limit, varsSources, varsRequest,
                   varsCrawl, varsPipeline, varsServices>>

NextSearch == DoRunSearch

SpecSearch == InitSearch /\ [][NextSearch]_vars

(***************************************************************************)
(* The query normalizer.                                                   *)
(***************************************************************************)
\* _STOP_WORDS
STOP_WORDS ==
    { <<1072>>,   \* а
      <<1073, 1077, 1079>>,   \* без
      <<1073, 1099, 1083>>,   \* был
      <<1073, 1099, 1083, 1072>>,   \* была
      <<1073, 1099, 1090, 1100>>,   \* быть
      <<1074>>,   \* в
      <<1074, 1089, 1077>>,   \* все
      <<1074, 1089, 1105>>,   \* всё
      <<1074, 1099>>,   \* вы
      <<1076, 1083, 1103>>,   \* для
      <<1076, 1086>>,   \* до
      <<1077, 1075, 1086>>,   \* его
      <<1077, 1089, 1090, 1100>>,   \* есть
      <<1077, 1097, 1077>>,   \* еще
      <<1077, 1105>>,   \* её
      <<1078, 1077>>,   \* же
      <<1079, 1072>>,   \* за
      <<1080>>,   \* и
      <<1080, 1079>>,   \* из
      <<1080, 1083, 1080>>,   \* или
      <<1080, 1093>>,   \* их
      <<1082>>,   \* к
      <<1082, 1072, 1082>>,   \* как
      <<1084, 1086, 1078, 1085, 1086>>,   \* можно
      <<1084, 1099>>,   \* мы
      <<1085, 1072>>,   \* на
      <<1085, 1077>>,   \* не
      <<1085, 1080>>,   \* ни
      <<1085, 1086>>,   \* но
      <<1086>>,   \* о
      <<1086, 1073>>,   \* об
      <<1086, 1085>>,   \* он
      <<1086, 1085, 1072>>,   \* она
      <<1086, 1085, 1080>>,   \* они
      <<1086, 1090>>,   \* от
      <<1087, 1086>>,   \* по
      <<1087, 1088, 1080>>,   \* при
      <<1087, 1088, 1086>>,   \* про
      <<1089>>,   \* с
      <<1090, 1072, 1082>>,   \* так
      <<1090, 1086, 1078, 1077>>,   \* тоже
      <<1090, 1086, 1083, 1100, 1082, 1086>>,   \* только
      <<1091>>,   \* у
      <<1091, 1078, 1077>>,   \* уже
      <<1095, 1090, 1086>>,   \* что
      <<1101, 1090, 1086>>,   \* это
      <<1103>>   \* я
    }

\* _SYNONYMS, in the order of the dict's keys
SYNONYMS ==
    <<
      [key |-> <<1087, 1086, 1101, 1079, 1080, 1103>>,   \* поэзия
       syns |-> <<
          <<1089, 1090, 1080, 1093, 1080>>,   \* стихи
          <<1089, 1090, 1080, 1093>>,   \* стих
          <<1089, 1090, 1080, 1093, 1086, 1090, 1074, 1086, 1088, 1077, 1085, 1080, 1077>>   \* стихотворение
       >>],
      [key |-> <<1089, 1090, 1080, 1093, 1080>>,   \* стихи
       syns |-> <<
          <<1087, 1086, 1101, 1079, 1080, 1103>>,   \* поэзия
          <<1089, 1090, 1080, 1093>>   \* стих
       >>],
      [key |-> <<1089, 1090, 1080, 1093>>,   \* стих
       syns |-> <<
          <<1087, 1086, 1101, 1079, 1080, 1103>>,   \* поэзия
          <<1089, 1090, 1080, 1093, 1080>>   \* стихи
       >>],
      [key |-> <<1089, 1090, 1080, 1093, 1086, 1090, 1074, 1086, 1088, 1077, 1085, 1080, 1077>>,   \* стихотворение
       syns |-> <<
          <<1087, 1086, 1101, 1079, 1080, 1103>>,   \* поэзия
          <<1089, 1090, 1080, 1093, 1080>>   \* стихи
       >>],
      [key |-> <<1088, 1072, 1089, 1089, 1082, 1072, 1079>>,   \* рассказ
       syns |-> <<
          <<1080, 1089, 1090, 1086, 1088, 1080, 1103>>,   \* история
          <<1086, 1095, 1077, 1088, 1082>>   \* очерк
       >>],
      [key |-> <<1086, 1095, 1077, 1088, 1082>>,   \* очерк
       syns |-> <<
          <<1088, 1072, 1089, 1089, 1082, 1072, 1079>>,   \* рассказ
          <<1089, 1090, 1072, 1090, 1100, 1103>>   \* статья
       >>],
      [key |-> <<1089, 1090, 1072, 1090, 1100, 1103>>,   \* статья
       syns |-> <<
          <<1086, 1095, 1077, 1088, 1082>>,   \* очерк
          <<1084, 1072, 1090, 1077, 1088, 1080, 1072, 1083>>   \* материал
       >>],
      [key |-> <<1087, 1086, 1073, 1077, 1076, 1072>>,   \* победа
       syns |-> <<
          <<1087, 1086, 1073, 1077, 1076, 1080, 1090, 1077, 1083, 1100>>,   \* победитель
          <<1087, 1086, 1073, 1077, 1076, 1085, 1099, 1081>>   \* победный
       >>],
      [key |-> <<1096, 1082, 1086, 1083, 1072>>,   \* школа
       syns |-> <<
          <<1096, 1082, 1086, 1083, 1100, 1085, 1080, 1082>>,   \* школьник
          <<1096, 1082, 1086, 1083, 1100, 1085, 1099, 1081>>   \* школьный
       >>],
      [key |-> <<1076, 1077, 1090, 1080>>,   \* дети
       syns |-> <<
          <<1088, 1077, 1073, 1077, 1085, 1086, 1082>>,   \* ребенок
          <<1088, 1077, 1073, 1103, 1090, 1072>>   \* ребята
       >>],
      [key |-> <<1087, 1088, 1072, 1079, 1076, 1085, 1080, 1082>>,   \* праздник
       syns |-> <<
          <<1087, 1088, 1072, 1079, 1076, 1085, 1080, 1095, 1085, 1099, 1081>>,   \* праздничный
          <<1087, 1088, 1072, 1079, 1076, 1085, 1086, 1074, 1072, 1085, 1080, 1077>>   \* празднование
       >>],
      [key |-> <<1074, 1086, 1081, 1085, 1072>>,   \* война
       syns |-> <<
          <<1074, 1086, 1077, 1085, 1085, 1099, 1081>>,   \* военный
          <<1092, 1088, 1086, 1085, 1090>>   \* фронт
       >>],
      [key |-> <<1090, 1072, 1090, 1072, 1088, 1089, 1082>>,   \* татарск
       syns |-> <<
          <<1090, 1072, 1090, 1072, 1088, 1089, 1082, 1080, 1081>>   \* татарский
       >>]
    >>

\* The character class [а-яёa-z0-9] of the tokenizer.
IsTokenChar(c) == IsLetter(c) \/ c \in 48..57

RECURSIVE ScanTokens(_, _, _)
\* re.findall(r"[а-яёa-z0-9]+", s): the maximal runs, left to right; cur is the
\* run being read from position i on.
ScanTokens(s, i, cur) ==
    IF i > Len(s) THEN (IF cur = <<>> THEN <<>> ELSE <<cur>>)
    ELSE IF IsTokenChar(s[i]) THEN ScanTokens(s, i + 1, Append(cur, s[i]))
    ELSE (IF cur = <<>> THEN <<>> ELSE <<cur>>) \o ScanTokens(s, i + 1, <<>>)

Tokens(s) == ScanTokens(s, 1, <<>>)

\* The values of a sequence.
Range(s) == { s[i] : i \in 1..Len(s) }

\* _SYNONYMS[w] for a key w, and "w in _SYNONYMS".
IsSynonymKey(w) == \E i \in 1..Len(SYNONYMS) : SYNONYMS[i].key = w

SynonymsOf(w) == SYNONYMS[CHOOSE i \in 1..Len(SYNONYMS) : SYNONYMS[i].key = w].syns

RECURSIVE AddSynonymsUnseen(_, _)
\* Mutant of AddSynonyms: the synonyms are appended whether seen or not.
AddSynonymsUnseen(res, syns) ==
    IF syns = <<>> THEN res
    ELSE AddSynonymsUnseen(IF Len(Head(syns)) >= 2 THEN Append(res, Head(syns)) ELSE res,
                           Tail(syns))

RECURSIVE AddSynonyms(_, _)
\* for s in _SYNONYMS[w]: if s not in seen and len(s) >= 2: append s
AddSynonyms(res, syns) ==
    IF syns = <<>> THEN res
    ELSE LET x == Head(syns)
         IN  AddSynonyms(IF x \notin Range(res) /\ Len(x) >= 2 THEN Append(res, x) ELSE res,
                         Tail(syns))

\* Mutant of AddKeyOf: a word that is no key adds nothing.
AddKeyOfNone(res, w) == res

\* for key, syns in _SYNONYMS.items(): if w in syns and key not in seen:
\* append key; break
AddKeyOf(res, w) ==
    LET hits == { i \in 1..Len(SYNONYMS) :
                    w \in Range(SYNONYMS[i].syns) /\ SYNONYMS[i].key \notin Range(res) }
    IN  IF hits = {} THEN res
        ELSE Append(res, SYNONYMS[CHOOSE i \in hits : \A k \in hits : i <= k].key)

RECURSIVE ExpandFromResult(_, _, _)
\* Mutant of ExpandFrom: the loop runs over the growing result, so the terms
\* it appended are expanded in their turn.
ExpandFromResult(words, i, res) ==
    IF i > Len(res) THEN res
    ELSE ExpandFromResult(words, i + 1,
                          IF IsSynonymKey(res[i])
                          THEN AddSynonyms(res, SynonymsOf(res[i]))
                          ELSE AddKeyOf(res, res[i]))

RECURSIVE ExpandFrom(_, _, _)
\* The loop of _expand_with_synonyms from word i on; seen is the set of the
\* values of result.
ExpandFrom(words, i, res) ==
    IF i > Len(words) THEN res
    ELSE ExpandFrom(words, i + 1,
                    IF IsSynonymKey(words[i])
                    THEN AddSynonyms(res, SynonymsOf(words[i]))
                    ELSE AddKeyOf(res, words[i]))

\* Mutant of ExpandWithSynonyms: the words come back as they are.
ExpandWithNothing(words) == words

ExpandWithSynonyms(words) == ExpandFrom(words, 1, words)

RECURSIVE NormalizeAll(_, _)
\* The lemmas of words, each once, in the order of their first occurrence.
NormalizeAll(words, normalized) ==
    IF words = <<>> THEN normalized
    ELSE LET norm == NormalizeWord(Head(words))
         IN  NormalizeAll(Tail(words),
                          IF norm \in Range(normalized) THEN normalized
                          ELSE Append(normalized, norm))

ExtractAndExpandQuery(q) ==
    LET long(w) == Len(w) >= 2
        kept(w) == w \notin STOP_WORDS
        words == SelectSeq(SelectSeq(Tokens(Lower(q)), long), kept)
    IN  IF words = <<>> THEN <<>>
        ELSE ExpandWithSynonyms(NormalizeAll(words, <<>>))

(***************************************************************************)
(* The query normalizer under study.                                       *)
(***************************************************************************)
\* The words queries are made of: table keys, table values, inflected forms,
\* a capitalised word, a stop word and a one-letter word.
QueryVocabulary ==
    {W_stihi, W_stih, W_poeziya, W_ocherk, W_istoriya, W_pobeda, W_shkoly, W_Shkola,
     W_chto, W_ya, S_won, W_rasskaz}

RECURSIVE JoinWords(_)
\* The words of a query, a space between them.
JoinWords(ws) ==
    IF ws = <<>> THEN <<>>
    ELSE IF Len(ws) = 1 THEN ws[1]
    ELSE ws[1] \o S_space \o JoinWords(Tail(ws))

QueriesOfWords == { JoinWords(ws) : ws \in SeqsUpTo(QueryVocabulary, MaxQueryWords) }

InitQuery ==
    /\ pc = "query"
    /\ query \in QueriesOfWords
    /\ morph \in BOOLEAN
    /\ fn = "none"
    /\ source_state = [x \in Sources |-> "idle"]
    /\ articles = <<>>
    /\ query_words = <<>>
    /\ limit = 0
    /\ full_match = <<>>
    /\ any_match = <<>>
    /\ result = <<>>
    /\ IdleSources
    /\ IdleRequest
    /\ IdleCrawl
    /\ IdleServices

\* query_words = _extract_and_expand_query(query)
DoExtractAndExpandQuery ==
    /\ pc = "query"
    /\ query_words' = ExtractAndExpandQuery(query)
    /\ pc' = "normalized"
    /\ UNCHANGED <<morph, articles, limit, full_match, any_match, result, varsSources,
                   varsRequest, varsCrawl, varsPipeline, varsServices>>

NextQuery == DoExtractAndExpandQuery

SpecQuery == InitQuery /\ [][NextQuery]_vars

(***************************************************************************)
(* The query normalizer and the ranker end to end: a query, a pool of      *)
(* titled records and a limit are drawn, the query is normalized and the   *)
(* pool is searched with the terms.                                        *)
(***************************************************************************)
MaxEndPool == 3

\* "Победа в конкурсе"
T_PobedaVKonkurse ==
    <<1055, 1086, 1073, 1077, 1076, 1072, 32, 1074, 32, 1082, 1086, 1085, 1082, 1091, 1088,
      1089, 1077>>
\* "Школьный праздник"
T_ShkolnyPrazdnik ==
    <<1064, 1082, 1086, 1083, 1100, 1085, 1099, 1081, 32, 1087, 1088, 1072, 1079, 1076, 1085,
      1080, 1082>>
\* "Дождь в Татарске"
T_DozhdVTatarske ==
    <<1044, 1086, 1078, 1076, 1100, 32, 1074, 32, 1058, 1072, 1090, 1072, 1088, 1089, 1082, 1077>>
\* "праздник школа"
Q_prazdnik_shkola ==
    <<1087, 1088, 1072, 1079, 1076, 1085, 1080, 1082, 32, 1096, 1082, 1086, 1083, 1072>>
U_d == <<104, 116, 116, 112, 115, 58, 47, 47, 100>>   \* "https://d"

R_Pobeda == [title |-> T_PobedaVKonkurse, url |-> U_a, summary |-> S_empty, fulltext |-> S_empty]
R_Prazdnik == [title |-> T_ShkolnyPrazdnik, url |-> U_b, summary |-> S_empty, fulltext |-> S_empty]
R_Dozhd == [title |-> T_DozhdVTatarske, url |-> U_d, summary |-> S_empty, fulltext |-> S_empty]

EndToEndRecords == {R_Pobeda, R_Prazdnik, R_Dozhd}

\* The pool of the example.
EndToEndPool == <<R_Pobeda, R_Prazdnik, R_Dozhd>>

EndToEndQueries == {W_pobeda, Q_prazdnik_shkola, W_shkoly, W_chto}

InitEndToEnd ==
    /\ pc = "query"
    /\ query \in EndToEndQueries
    /\ morph \in BOOLEAN
    /\ articles \in SeqsUpTo(EndToEndRecords, MaxEndPool)
    /\ limit \in 1..MaxLimit
    /\ fn = "none"
    /\ source_state = [x \in Sources |-> "idle"]
    /\ query_words = <<>>
    /\ full_match = <<>>
    /\ any_match = <<>>
    /\ result = <<>>
    /\ IdleSources
    /\ IdleRequest
    /\ IdleCrawl
    /\ IdleServices

\* return _run_search(articles, query_words, limit), after
\* query_words = _extract_and_expand_query(query)
SearchWithTerms ==
    /\ pc = "normalized"
    /\ articles # <<>>
    /\ LET r == RunSearch(articles, query_words, limit)
       IN  /\ result' = r.result
           /\ full_match' = r.full_match
           /\ any_match' = r.any_match
    /\ pc' = "searched"
    /\ UNCHANGED <<morph, articles, query_words, limit, varsSources, varsRequest,
                   varsCrawl, varsPipeline, varsServices>>

NextEndToEnd == DoExtractAndExpandQuery \/ SearchWithTerms

SpecEndToEnd == InitEndToEnd /\ [][NextEndToEnd]_vars

(***************************************************************************)
(* The article store (database.py): the table articles, written through    *)
(* add_article and read through article_exists.  Each call runs in a       *)
(* connection and a transaction of its own, so a call is one step.         *)
(***************************************************************************)
MaxDbCalls == 4

\* summary or ""
SummaryOrEmpty(summary) == IF summary.given /\ summary.text # <<>> THEN summary.text ELSE <<>>

\* SELECT 1 FROM articles WHERE url = ?
UrlStored(rows, url) == \E i \in 1..Len(rows) : rows[i].url = url

\* id INTEGER PRIMARY KEY of a new row: one more than the largest id.
NextRowId(rows) ==
    IF rows = <<>> THEN 1
    ELSE 1 + (CHOOSE m \in { rows[i].id : i \in 1..Len(rows) } :
                 \A i \in 1..Len(rows) : rows[i].id <= m)

\* Mutant of InsertOrIgnore: the url column is not UNIQUE, every row is added.
InsertAlways(rows, title, url, summary) ==
    Append(rows, [id |-> NextRowId(rows), title |-> title, url |-> url,
                  summary |-> SummaryOrEmpty(summary)])

\* INSERT OR IGNORE INTO articles: url is UNIQUE, a row whose url is stored
\* is skipped.
InsertOrIgnore(rows, title, url, summary) ==
    IF UrlStored(rows, url) THEN rows
    ELSE Append(rows, [id |-> NextRowId(rows), title |-> title, url |-> url,
                       summary |-> SummaryOrEmpty(summary)])

\* cursor.lastrowid of the fresh connection: the id of the row it inserted,
\* 0 when the insert was skipped.
LastRowId(before, after) == IF after = before THEN 0 ELSE after[Len(after)].id

\* add_article(title, url, summary): the rows after the call and the value
\* returned, 'cursor.lastrowid if cursor.lastrowid else None'.
AddArticleTo(rows, title, url, summary) ==
    LET after == InsertOrIgnore(rows, title, url, summary)
        lastrowid == LastRowId(rows, after)
    IN  [rows |-> after, none |-> lastrowid = 0, id |-> lastrowid]

StoreTitles == {T_WinCup, T_CupDay}
StoreUrls == {U_a, U_b, U_d}
StoreSummaries ==
    { [given |-> FALSE, text |-> S_empty], [given |-> TRUE, text |-> S_empty],
      [given |-> TRUE, text |-> S_day] }

AddArticle(title, url, summary) ==
    /\ pc = "store"
    /\ db_calls < MaxDbCalls
    /\ LET r == AddArticleTo(store, title, url, summary)
       IN  /\ store' = r.rows
           /\ db_ret' = [op |-> "add", url |-> url, none |-> r.none, id |-> r.id,
                         found |-> FALSE]
    /\ added' = added \cup {url}
    /\ db_calls' = db_calls + 1
    /\ UNCHANGED <<pc, varsSearch, varsSources, varsRequest, varsCrawl, varsPipeline,
                   varsCache, varsCron,
                   varsMatch, varsNotify>>

ArticleExists(url) ==
    /\ pc = "store"
    /\ db_calls < MaxDbCalls
    /\ db_ret' = [op |-> "exists", url |-> url, none |-> TRUE, id |-> 0,
                  found |-> UrlStored(store, url)]
    /\ db_calls' = db_calls + 1
    /\ UNCHANGED <<pc, store, added, varsSearch, varsSources, varsRequest, varsCrawl,
                   varsPipeline, varsCache, varsCron,
                   varsMatch, varsNotify>>

\* The table after init_database() on a new file.
InitStore ==
    /\ pc = "store"
    /\ fn = "none"
    /\ query = <<>>
    /\ source_state = [x \in Sources |-> "idle"]
    /\ IdleSearch
    /\ IdleSources
    /\ IdleRequest
    /\ IdleCrawl
    /\ IdleServices

NextStore ==
    \/ \E title \in StoreTitles : \E url \in StoreUrls : \E summary \in StoreSummaries :
          AddArticle(title, url, summary)
    \/ \E url \in StoreUrls : ArticleExists(url)

SpecStore == InitStore /\ [][NextStore]_vars

(***************************************************************************)
(* The matcher under study: _word_matches is called with a term and a      *)
(* searchable text, and runs its loop over the words of the text.          *)
(***************************************************************************)
W_pobedny == <<1087, 1086, 1073, 1077, 1076, 1085, 1099, 1081>>   \* "победный"
W_obed == <<1086, 1073, 1077, 1076>>   \* "обед"
W_dozhd == <<1076, 1086, 1078, 1076, 1100>>   \* "дождь"
S_she == <<115, 104, 101>>   \* "she"

RECURSIVE FindWords(_, _, _)
\* re.findall(r"[а-яёa-z]{2,}", s): the maximal runs of letters, left to
\* right, those of two letters or more; cur is the run being read.
FindWords(s, i, cur) ==
    LET found == IF Len(cur) >= 2 THEN <<cur>> ELSE <<>>
    IN  IF i > Len(s) THEN found
        ELSE IF IsLetter(s[i]) THEN FindWords(s, i + 1, Append(cur, s[i]))
        ELSE found \o FindWords(s, i + 1, <<>>)

RECURSIVE WordMatchesFromNoReverse(_, _, _, _)
\* Mutant of WordMatchesFrom: 'word_lemma in query_word' is left out.
WordMatchesFromNoReverse(query_word, query_lemma, words_in_text, i) ==
    IF i > Len(words_in_text) THEN FALSE
    ELSE LET word_lemma == GetLemma(words_in_text[i])
         IN  IF query_lemma = word_lemma THEN TRUE
             ELSE IF IsSubstring(query_word, word_lemma) THEN TRUE
             ELSE IF /\ Len(query_lemma) >= 3
                     /\ Len(word_lemma) >= 3
                     /\ SubSeq(query_lemma, 1, 3) = SubSeq(word_lemma, 1, 3)
             THEN TRUE
             ELSE WordMatchesFromNoReverse(query_word, query_lemma, words_in_text, i + 1)

RECURSIVE WordMatchesFrom(_, _, _, _)
\* for w in words_in_text: ... return True; after the loop: return False
WordMatchesFrom(query_word, query_lemma, words_in_text, i) ==
    IF i > Len(words_in_text) THEN FALSE
    ELSE LET word_lemma == GetLemma(words_in_text[i])
         IN  IF query_lemma = word_lemma THEN TRUE
             ELSE IF IsSubstring(query_word, word_lemma) \/ IsSubstring(word_lemma, query_word)
             THEN TRUE
             ELSE IF /\ Len(query_lemma) >= 3
                     /\ Len(word_lemma) >= 3
                     /\ SubSeq(query_lemma, 1, 3) = SubSeq(word_lemma, 1, 3)
             THEN TRUE
             ELSE WordMatchesFrom(query_word, query_lemma, words_in_text, i + 1)

MatchTerms == {W_pobeda, W_pobedny, W_obed, W_dozhd, W_shkola, S_she, S_won, S_win, S_cup}
MatchTexts ==
    {T_PobedaVKonkurse, T_ShkolnyPrazdnik, T_HeWon, T_WinCup, T_CupDay, S_empty, S_win}

InitMatch ==
    /\ pc = "match"
    /\ morph \in BOOLEAN
    /\ term \in MatchTerms
    /\ text \in MatchTexts
    /\ matches = NoMatchCall
    /\ articles = <<>>
    /\ query_words = <<>>
    /\ limit = 0
    /\ full_match = <<>>
    /\ any_match = <<>>
    /\ result = <<>>
    /\ IdleSources
    /\ IdleRequest
    /\ IdleCrawl
    /\ IdlePipeline
    /\ IdleCache
    /\ IdleStore
    /\ IdleCron
    /\ IdleNotify

\* _word_matches(term, text)
DoWordMatches ==
    /\ pc = "match"
    /\ matches.at = "idle"
    /\ LET searchable_lower == Lower(text)
       IN  matches' =
              [at |-> "done",
               ret |-> IF IsSubstring(term, searchable_lower) THEN TRUE
                       ELSE WordMatchesFrom(term, GetLemma(term),
                                            FindWords(searchable_lower, 1, <<>>), 1)]
    /\ UNCHANGED <<pc, term, text, varsSearch, varsSources, varsRequest, varsCrawl,
                   varsPipeline, varsCache, varsStore, varsCron, varsNotify>>

NextMatch == DoWordMatches

SpecMatch == InitMatch /\ [][NextMatch]_vars

(***************************************************************************)
(* The merger.                                                             *)
(***************************************************************************)
S_http == <<104, 116, 116, 112, 58, 47, 47>>        \* "http://"
S_https == <<104, 116, 116, 112, 115, 58, 47, 47>>  \* "https://"

\* s.replace(old, new, 1): the leftmost occurrence of old becomes new.
ReplaceFirst(s, old, new) ==
    LET at == { i \in 1..(Len(s) - Len(old) + 1) :
                    SubSeq(s, i, i + Len(old) - 1) = old }
    IN  IF at = {} THEN s
        ELSE LET i == CHOOSE k \in at : \A m \in at : k <= m
             IN  SubSeq(s, 1, i - 1) \o new \o SubSeq(s, i + Len(old), Len(s))

RECURSIVE RStrip(_, _)
\* s.rstrip(c) for one character c.
RStrip(s, c) ==
    IF s # <<>> /\ s[Len(s)] = c THEN RStrip(SubSeq(s, 1, Len(s) - 1), c) ELSE s

\* Mutant of Canonical: the trailing slashes stay.
CanonicalKeepsSlash(url) == ReplaceFirst(url, S_http, S_https)

\* a["url"].replace("http://", "https://", 1).rstrip("/")
Canonical(url) == RStrip(ReplaceFirst(url, S_http, S_https), 47)

\* by_url is a dict: a sequence of (key, value) in the order the keys were
\* first inserted; assigning to a key it has keeps the key's place.
DictHas(d, k) == \E i \in 1..Len(d) : d[i].key = k

DictPut(d, k, v) ==
    IF DictHas(d, k)
    THEN [i \in 1..Len(d) |-> IF d[i].key = k THEN [key |-> k, value |-> v] ELSE d[i]]
    ELSE Append(d, [key |-> k, value |-> v])

DictValues(d) == [i \in 1..Len(d) |-> d[i].value]

RECURSIVE MergeRss(_, _)
\* for a in rss_articles: by_url[url] = a
MergeRss(d, rss) ==
    IF rss = <<>> THEN d
    ELSE MergeRss(DictPut(d, Canonical(Head(rss).url), Head(rss)), Tail(rss))

RECURSIVE MergeHtml(_, _)
\* for a in html_articles: if url not in by_url: by_url[url] = a
MergeHtml(d, html) ==
    IF html = <<>> THEN d
    ELSE LET url == Canonical(Head(html).url)
         IN  MergeHtml(IF DictHas(d, url) THEN d ELSE DictPut(d, url, Head(html)),
                       Tail(html))

\* Mutant of MergeOkolicaSources: the HTML loop lost its "not in by_url" test,
\* so an HTML record overwrites the RSS record of its URL.
MergeHtmlOverwrites(rss, html, gazeta) ==
    DictValues(MergeRss(MergeRss(<<>>, rss), html)) \o gazeta

\* Mutant of MergeOkolicaSources: the archive records go through by_url too.
MergeDedupsGazeta(rss, html, gazeta) ==
    DictValues(MergeHtml(MergeHtml(MergeRss(<<>>, rss), html), gazeta))

\* _merge_okolica_sources; gazeta = None takes the path of the empty list.
MergeOkolicaSources(rss, html, gazeta) ==
    DictValues(MergeHtml(MergeRss(<<>>, rss), html)) \o gazeta

(***************************************************************************)
(* The merger under study: three adapter outputs are drawn and one step    *)
(* merges them.                                                            *)
(***************************************************************************)
U_a_slash == <<104, 116, 116, 112, 115, 58, 47, 47, 97, 47>>          \* "https://a/"
U_a_http == <<104, 116, 116, 112, 58, 47, 47, 97>>                    \* "http://a"
U_a_http_slashes == <<104, 116, 116, 112, 58, 47, 47, 97, 47, 47>>    \* "http://a//"
U_c == <<104, 116, 116, 112, 115, 58, 47, 47, 99, 47>>                \* "https://c/"
OLD_SITE_URL ==
    <<104, 116, 116, 112, 115, 58, 47, 47, 111, 107, 111, 108, 105, 99, 97,
      46, 110, 101, 116>>                                             \* "https://okolica.net"
S_gazeta == <<47, 103, 97, 122, 101, 116, 97, 47>>                    \* "/gazeta/"
T_R1 == <<82, 49>>              \* "R1"
T_R2 == <<82, 50>>              \* "R2"
T_R3 == <<82, 51>>              \* "R3"
T_H1 == <<72, 49>>              \* "H1"
T_H2 == <<72, 50>>              \* "H2"
T_H3 == <<72, 51>>              \* "H3"
T_G1 == <<71, 49>>              \* "G1"
T_G2 == <<71, 50>>              \* "G2"
S_full == <<102, 117, 108, 108>>   \* "full"

\* RSS records carry a fulltext.
RssRecords ==
    { [title |-> T_R1, url |-> U_a, summary |-> S_empty, fulltext |-> S_full],
      [title |-> T_R2, url |-> U_a_http_slashes, summary |-> S_empty, fulltext |-> S_full],
      [title |-> T_R3, url |-> U_b, summary |-> S_empty, fulltext |-> S_full] }

\* HTML records carry none.
HtmlRecords ==
    { [title |-> T_H1, url |-> U_a_slash, summary |-> S_empty, fulltext |-> S_empty],
      [title |-> T_H2, url |-> U_a_http, summary |-> S_empty, fulltext |-> S_empty],
      [title |-> T_H3, url |-> U_c, summary |-> S_empty, fulltext |-> S_empty] }

\* Every archive record points to the archive's root (parser.py:385).
GazetaRecords ==
    { [title |-> T_G1, url |-> OLD_SITE_URL \o S_gazeta, summary |-> S_empty,
       fulltext |-> T_G1],
      [title |-> T_G2, url |-> OLD_SITE_URL \o S_gazeta, summary |-> S_empty,
       fulltext |-> T_G2] }

InitMerge ==
    /\ pc = "merge"
    /\ rss_articles \in SeqsUpTo(RssRecords, MaxRss)
    /\ html_articles \in SeqsUpTo(HtmlRecords, MaxHtml)
    /\ gazeta_articles \in SeqsUpTo(GazetaRecords, MaxGazeta)
    /\ IdleSearch
    /\ IdleRequest
    /\ IdleCrawl
    /\ IdleServices
    /\ IdlePipeline

DoMerge ==
    /\ pc = "merge"
    /\ articles' = MergeOkolicaSources(rss_articles, html_articles, gazeta_articles)
    /\ pc' = "merged"
    /\ UNCHANGED <<morph, query_words, limit, full_match, any_match, result,
                   varsSources, varsRequest, varsCrawl, varsPipeline, varsServices>>

NextMerge == DoMerge

SpecMerge == InitMerge /\ [][NextMerge]_vars

(***************************************************************************)
(* The source adapters: what one page or feed turns into.                  *)
(***************************************************************************)
S_news == <<47, 110, 101, 119, 115, 47>>   \* "/news/"
S_dot_html == <<46, 104, 116, 109, 108>>   \* ".html"
S_rss == <<114, 115, 115>>   \* "rss"
S_top_html == <<47, 116, 111, 112, 46, 104, 116, 109, 108>>   \* "/top.html"
S_last_html == <<47, 108, 97, 115, 116, 46, 104, 116, 109, 108>>   \* "/last.html"
S_ellipsis == <<91, 46, 46, 46, 93>>   \* "[...]"
S_http_prefix == <<104, 116, 116, 112>>   \* "http"

\* The characters str.strip() and the class \s remove.
IsSpace(c) == c \in 9..13 \/ c \in 28..32 \/ c = 133 \/ c = 160

IsDigit(c) == c \in 48..57

RECURSIVE LStripWs(_)
LStripWs(s) == IF s # <<>> /\ IsSpace(s[1]) THEN LStripWs(Tail(s)) ELSE s

RECURSIVE RStripWs(_)
RStripWs(s) ==
    IF s # <<>> /\ IsSpace(s[Len(s)]) THEN RStripWs(SubSeq(s, 1, Len(s) - 1)) ELSE s

\* str.strip()
StripWs(s) == RStripWs(LStripWs(s))

\* p stands in s at position i.
StandsAt(s, i, p) == i >= 1 /\ i + Len(p) - 1 <= Len(s) /\ SubSeq(s, i, i + Len(p) - 1) = p

StartsWith(s, p) == StandsAt(s, 1, p)

EndsWith(s, p) == StandsAt(s, Len(s) - Len(p) + 1, p)

\* re.search(r"/news/[^/]+/\d+\.html", href): "/news/" at i, a segment without
\* a slash up to the slash at j, digits up to ".html" at k.
MatchesArticlePath(href) ==
    \E i \in 1..Len(href) :
        /\ StandsAt(href, i, S_news)
        /\ \E j \in (i + 7)..Len(href) :
              /\ href[j] = 47
              /\ \A m \in (i + 6)..(j - 1) : href[m] # 47
              /\ \E k \in (j + 2)..Len(href) :
                    /\ StandsAt(href, k, S_dot_html)
                    /\ \A m \in (j + 1)..(k - 1) : IsDigit(href[m])

\* re.sub(r"\s*\[\.\.\.\]\s*$", "", title): a closing "[...]" goes, with the
\* white space around it.
StripEllipsis(title) ==
    LET t == RStripWs(title)
    IN  IF EndsWith(t, S_ellipsis)
        THEN RStripWs(SubSeq(t, 1, Len(t) - Len(S_ellipsis)))
        ELSE title

\* The anchors of _fetch_okolica_html_from_path that are no article links.
SkippedHref(href) ==
    \/ ~IsSubstring(S_news, href)
    \/ ~IsSubstring(S_dot_html, href)
    \/ IsSubstring(S_rss, href)
    \/ IsSubstring(S_top_html, href)
    \/ IsSubstring(S_last_html, href)
    \/ ~MatchesArticlePath(href)

\* One anchor of a listing page; st holds the local articles and seen_urls.
ProcessAnchor(st, a) ==
    LET href == a.href
        full_url == IF StartsWith(href, S_http_prefix) THEN href ELSE OLD_SITE_URL \o href
        title == StripEllipsis(StripWs(a.text))
    IN  IF SkippedHref(href) \/ href \in st.seen \/ Len(title) < 5
        THEN st
        ELSE [seen |-> st.seen \cup {href},
              articles |-> Append(st.articles,
                  [title |-> title,
                   url |-> ReplaceFirst(full_url, S_http, S_https),
                   summary |-> S_empty,
                   fulltext |-> S_empty])]

RECURSIVE ProcessAnchors(_, _)
\* for a in soup.find_all("a", href=True): ...
ProcessAnchors(st, anchors) ==
    IF anchors = <<>> THEN st
    ELSE ProcessAnchors(ProcessAnchor(st, Head(anchors)), Tail(anchors))

\* One <item> of the feed; a missing element reads as the empty text.
ProcessRssItem(arts, item) ==
    LET stripped == StripWs(item.link)
        url_str == IF StartsWith(stripped, S_http_prefix) THEN stripped
                   ELSE IF StartsWith(stripped, <<47>>) THEN OLD_SITE_URL \o stripped
                   ELSE stripped
        title == StripWs(item.title)
    IN  IF item.link = <<>> \/ ~IsSubstring(S_news, item.link) \/ title = <<>>
        THEN arts
        ELSE Append(arts,
                 [title |-> title,
                  url |-> ReplaceFirst(url_str, S_http, S_https),
                  summary |-> Take(StripWs(item.description), 200),
                  fulltext |-> StripWs(item.fulltext)])

RECURSIVE ProcessRssItems(_, _)
\* for item in items: ...
ProcessRssItems(arts, items) ==
    IF items = <<>> THEN arts
    ELSE ProcessRssItems(ProcessRssItem(arts, Head(items)), Tail(items))

RECURSIVE Split(_, _)
\* s.split(c) for one character c.
Split(s, c) ==
    LET at == { i \in 1..Len(s) : s[i] = c }
    IN  IF at = {} THEN <<s>>
        ELSE LET i == CHOOSE k \in at : \A m \in at : k <= m
             IN  <<SubSeq(s, 1, i - 1)>> \o Split(SubSeq(s, i + 1, Len(s)), c)

RECURSIVE CollapseWs(_)
\* re.sub(r"\s+", " ", s): every run of white space becomes one space.
CollapseWs(s) ==
    IF s = <<>> THEN <<>>
    ELSE IF IsSpace(s[1]) THEN <<32>> \o CollapseWs(LStripWs(s))
    ELSE <<s[1]>> \o CollapseWs(Tail(s))

RECURSIVE AddTitlesUnseen(_, _)
\* Mutant of AddTitles: a title is added whether it was seen or not.
AddTitlesUnseen(st, parts) ==
    IF parts = <<>> THEN st
    ELSE LET title == CollapseWs(Head(parts))
         IN  AddTitlesUnseen(IF Len(title) < 5 THEN st
                             ELSE [seen |-> st.seen \cup {title},
                                   articles |-> Append(st.articles,
                                       [title |-> title,
                                        url |-> OLD_SITE_URL \o S_gazeta,
                                        summary |-> S_empty,
                                        fulltext |-> title])],
                             Tail(parts))

RECURSIVE AddTitles(_, _)
\* for title in parts: ...; st holds the local all_articles and seen_titles.
AddTitles(st, parts) ==
    IF parts = <<>> THEN st
    ELSE LET title == CollapseWs(Head(parts))
         IN  AddTitles(IF Len(title) < 5 \/ title \in st.seen THEN st
                       ELSE [seen |-> st.seen \cup {title},
                             articles |-> Append(st.articles,
                                 [title |-> title,
                                  url |-> OLD_SITE_URL \o S_gazeta,
                                  summary |-> S_empty,
                                  fulltext |-> title])],
                       Tail(parts))

\* Mutant of ProcessBlock: a fragment must be longer than five characters.
ProcessBlockOverFive(st, txt) ==
    IF 8226 \notin Range(txt) \/ Len(txt) < 10 THEN st
    ELSE LET parts == Split(txt, 8226)
             stripped == [i \in 1..Len(parts) |-> StripWs(parts[i])]
             long(x) == Len(x) > 5
         IN  AddTitles(st, SelectSeq(stripped, long))

\* One block element of an archive page, by its text.
ProcessBlock(st, txt) ==
    IF 8226 \notin Range(txt) \/ Len(txt) < 10 THEN st
    ELSE LET parts == Split(txt, 8226)
             stripped == [i \in 1..Len(parts) |-> StripWs(parts[i])]
             long(x) == Len(x) >= 5
         IN  AddTitles(st, SelectSeq(stripped, long))

RECURSIVE ProcessBlocks(_, _)
\* for elem in soup.find_all(["p", "div", "li", "td"]): ...
ProcessBlocks(st, blocks) ==
    IF blocks = <<>> THEN st
    ELSE ProcessBlocks(ProcessBlock(st, Head(blocks)), Tail(blocks))

(***************************************************************************)
(* The fetcher: _make_request, one step per requests.get.                  *)
(***************************************************************************)
Retries == 2   \* the default of the parameter retries; no caller passes another

\* What one requests.get can do: answer with a status, or raise a
\* requests.RequestException.
Statuses == {200, 404, 500, 502, 503}

RequestErrors == {"ConnectionError", "Timeout", "SSLError"}

\* Mutant of RespContinues: the retry test is attempt <= retries.
RespContinuesOnceMore(att, status) == status = 503 /\ att <= Retries

\* resp.status_code == 503 and attempt < retries
RespContinues(att, status) == status = 503 /\ att < Retries

\* Mutant of ErrorKept: only the first error is remembered.
ErrorKeptFirst(last, e) == IF last = "None" THEN e ELSE last

\* last_error = e
ErrorKept(last, e) == e

\* requests.get answers in iteration attempt of the loop.
GetResponds(status) ==
    /\ pc = "request"
    /\ attempt <= Retries
    /\ gets' = Append(gets, [kind |-> "response", status |-> status, err |-> "None"])
    /\ IF RespContinues(attempt, status)
       THEN /\ sleeps' = Append(sleeps, 3 * (attempt + 1))
            /\ attempt' = attempt + 1
            /\ UNCHANGED <<pc, result>>
       ELSE /\ result' = <<status>>
            /\ pc' = "returned"
            /\ UNCHANGED <<attempt, sleeps>>
    /\ UNCHANGED <<last_error, raised, varsRanker, varsSources, varsCrawl, varsPipeline,
                   varsServices>>

\* requests.get raises in iteration attempt of the loop.
GetRaises(e) ==
    /\ pc = "request"
    /\ attempt <= Retries
    /\ gets' = Append(gets, [kind |-> "error", status |-> 0, err |-> e])
    /\ last_error' = ErrorKept(last_error, e)
    /\ sleeps' = IF attempt < Retries THEN Append(sleeps, 2) ELSE sleeps
    /\ attempt' = attempt + 1
    /\ UNCHANGED <<pc, result, raised, varsRanker, varsSources, varsCrawl, varsPipeline,
                   varsServices>>

\* The loop is over without a return: raise last_error.
RaiseLastError ==
    /\ pc = "request"
    /\ attempt > Retries
    /\ raised' = last_error
    /\ pc' = "raised"
    /\ UNCHANGED <<attempt, last_error, gets, sleeps, result, varsRanker, varsSources,
                   varsCrawl, varsPipeline, varsServices>>

InitRequest ==
    /\ pc = "request"
    /\ IdleRequest
    /\ IdleSearch
    /\ IdleSources
    /\ IdleCrawl
    /\ IdleServices
    /\ IdlePipeline

NextRequest ==
    \/ \E status \in Statuses : GetResponds(status)
    \/ \E e \in RequestErrors : GetRaises(e)
    \/ RaiseLastError

SpecRequest == InitRequest /\ [][NextRequest]_vars

(***************************************************************************)
(* The crawls and the search functions, one step per page request.         *)
(***************************************************************************)
\* "https://sibokolica.ru"
SITE_URL ==
    <<104, 116, 116, 112, 115, 58, 47, 47, 115, 105, 98, 111, 107, 111, 108, 105, 99, 97, 46,
      114, 117>>
S_slash == <<47>>   \* "/"

\* What the three requests.get of one _make_request call can do.
AttemptOutcomes ==
    { [kind |-> "response", status |-> x, err |-> "None"] : x \in Statuses }
        \cup { [kind |-> "error", status |-> 0, err |-> e] : e \in RequestErrors }

RECURSIVE MakeRequestFrom(_, _, _)
\* The loop of _make_request from iteration att on, when requests.get does
\* outs[att + 1] in iteration att: the response returned or the error raised.
MakeRequestFrom(outs, att, last) ==
    IF att > Retries THEN [kind |-> "raise", status |-> 0, err |-> last]
    ELSE LET o == outs[att + 1]
         IN  IF o.kind = "response"
             THEN IF RespContinues(att, o.status)
                  THEN MakeRequestFrom(outs, att + 1, last)
                  ELSE [kind |-> "response", status |-> o.status, err |-> "None"]
             ELSE MakeRequestFrom(outs, att + 1, ErrorKept(last, o.err))

\* Every way a call of _make_request can end.
MakeRequestResults ==
    { MakeRequestFrom(outs, 0, "None") : outs \in [1..(Retries + 1) -> AttemptOutcomes] }

\* _make_request raised, or response.raise_for_status() does.
FetchFails(o) == o.kind = "raise" \/ (o.status >= 400 /\ o.status < 600)

\* _OKOLICA_CATEGORIES
OKOLICA_CATEGORIES == <<"", "rayon", "busines", "gorod", "foto">>

\* The base_path of each call of _fetch_okolica_html_from_path, in order: the
\* main listing, then every category that is not the empty string.
Sections ==
    LET named(c) == c # ""
    IN  <<"">> \o SelectSeq(OKOLICA_CATEGORIES, named)

\* max_pages of the call for section i.
MaxPagesOf(i) == IF i = 1 THEN MaxHtmlPages ELSE MaxCategoryPages

\* ARTICLES_LIMIT_SEARCH
ARTICLES_LIMIT_SEARCH == 10

\* Mutant of BreakOnFailure: the handler goes on with the next page.
ContinueOnFailure == FALSE

\* except Exception: ...; break
BreakOnFailure == TRUE

\* Mutant of FetchOkolicaRss: the try/except of the adapter is missing.
FetchOkolicaRssNoCatch(o, feed) ==
    IF FetchFails(o) \/ ~feed.ok
    THEN [ret |-> <<>>, exc |-> "Exception", failed |-> TRUE]
    ELSE [ret |-> ProcessRssItems(<<>>, feed.items), exc |-> "None", failed |-> FALSE]

\* _fetch_okolica_rss: o is how _make_request ended, feed the document it
\* brought (well-formed or not); ret is returned, exc is what escapes.
FetchOkolicaRss(o, feed) ==
    IF FetchFails(o) \/ ~feed.ok
    THEN [ret |-> <<>>, exc |-> "None", failed |-> TRUE]
    ELSE [ret |-> ProcessRssItems(<<>>, feed.items), exc |-> "None", failed |-> FALSE]

\* search_okolica_only / search_okolica_news up to the return of the RSS adapter.
FetchRss(o, feed) ==
    /\ pc = "rss"
    /\ LET r == FetchOkolicaRss(o, feed)
       IN  IF r.exc # "None"
           THEN \* except Exception of the search function: return []
                /\ result' = <<>>
                /\ pc' = "done"
                /\ UNCHANGED <<limit, rss_articles, source_state>>
           ELSE /\ limit' = IF limit = 0 THEN ARTICLES_LIMIT_SEARCH ELSE limit
                /\ rss_articles' = r.ret
                /\ source_state' =
                      [source_state EXCEPT !["rss"] = IF r.failed THEN "failed" ELSE "ok"]
                /\ pc' = "html"
                /\ UNCHANGED result
    /\ UNCHANGED <<morph, articles, query_words, full_match, any_match, html_articles,
                   gazeta_articles, varsRequest, varsCrawl, fn, query, varsServices>>

\* The history of page requests is kept when the crawl is studied on its own.
Logged(log, entry) == IF fn \in {"html", "gazeta"} THEN Append(log, entry) ELSE log

\* One page of a listing section was fetched and scanned.
HtmlPageOk(o, body) ==
    /\ pc = "html"
    /\ sec <= Len(Sections)
    /\ ~broke
    /\ page <= MaxPagesOf(sec)
    /\ ~FetchFails(o)
    /\ LET st == ProcessAnchors([seen |-> seen_urls, articles |-> section_articles], body)
       IN  /\ section_articles' = st.articles
           /\ seen_urls' = st.seen
           /\ html_log' = Logged(html_log,
                 [sec |-> sec, page |-> page, ok |-> TRUE,
                  added |-> SubSeq(st.articles, Len(section_articles) + 1, Len(st.articles))])
    /\ page' = page + 1
    /\ source_state' =
          [source_state EXCEPT !["html"] = IF @ = "failed" THEN "failed" ELSE "ok"]
    /\ UNCHANGED <<pc, varsSearch, varsSources, varsRequest, sec, broke, all_articles,
                   seen_titles, fn, query, varsServices>>

\* One page of a listing section could not be fetched.
HtmlPageFails(o) ==
    /\ pc = "html"
    /\ sec <= Len(Sections)
    /\ ~broke
    /\ page <= MaxPagesOf(sec)
    /\ FetchFails(o)
    /\ html_log' = Logged(html_log, [sec |-> sec, page |-> page, ok |-> FALSE, added |-> <<>>])
    /\ broke' = BreakOnFailure
    /\ page' = IF BreakOnFailure THEN page ELSE page + 1
    /\ source_state' = [source_state EXCEPT !["html"] = "failed"]
    /\ UNCHANGED <<pc, varsSearch, varsSources, varsRequest, sec, section_articles,
                   all_articles, seen_urls, seen_titles, fn, query, varsServices>>

\* _fetch_okolica_html_from_path returns; all_articles.extend(...).
HtmlSectionReturn ==
    /\ pc = "html"
    /\ sec <= Len(Sections)
    /\ broke \/ page > MaxPagesOf(sec)
    /\ all_articles' = all_articles \o section_articles
    /\ section_articles' = <<>>
    /\ sec' = sec + 1
    /\ page' = 1
    /\ broke' = FALSE
    /\ UNCHANGED <<pc, varsSearch, varsSources, varsRequest, seen_urls, seen_titles,
                   html_log, varsPipeline, varsServices>>

\* _fetch_okolica_html returns all_articles; its locals are gone.
HtmlReturn ==
    /\ pc = "html"
    /\ sec > Len(Sections)
    /\ html_articles' = all_articles
    /\ all_articles' = <<>>
    /\ seen_urls' = {}
    /\ sec' = 1
    /\ pc' = IF fn \in {"only", "old"} THEN "gazeta"
             ELSE IF fn = "news" THEN "rank" ELSE "html_returned"
    /\ UNCHANGED <<varsSearch, rss_articles, gazeta_articles, varsRequest, page, broke,
                   section_articles, seen_titles, html_log, varsPipeline, varsServices>>

\* One page of the archive was fetched and scanned.
GazetaPageOk(o, body) ==
    /\ pc = "gazeta"
    /\ ~broke
    /\ page <= MaxGazetaPages
    /\ ~FetchFails(o)
    /\ LET st == ProcessBlocks([seen |-> seen_titles, articles |-> all_articles], body)
       IN  /\ all_articles' = st.articles
           /\ seen_titles' = st.seen
    /\ html_log' = Logged(html_log, [page |-> page, ok |-> TRUE, blocks |-> body])
    /\ page' = page + 1
    /\ source_state' =
          [source_state EXCEPT !["gazeta"] = IF @ = "failed" THEN "failed" ELSE "ok"]
    /\ UNCHANGED <<pc, varsSearch, varsSources, varsRequest, sec, broke, section_articles,
                   seen_urls, fn, query, varsServices>>

\* One page of the archive could not be fetched.
GazetaPageFails(o) ==
    /\ pc = "gazeta"
    /\ ~broke
    /\ page <= MaxGazetaPages
    /\ FetchFails(o)
    /\ broke' = TRUE
    /\ source_state' = [source_state EXCEPT !["gazeta"] = "failed"]
    /\ html_log' = Logged(html_log, [page |-> page, ok |-> FALSE, blocks |-> <<>>])
    /\ UNCHANGED <<pc, varsSearch, varsSources, varsRequest, sec, page, section_articles,
                   all_articles, seen_urls, seen_titles, fn, query, varsServices>>

\* _fetch_okolica_gazeta returns all_articles; its locals are gone.
GazetaReturn ==
    /\ pc = "gazeta"
    /\ broke \/ page > MaxGazetaPages
    /\ gazeta_articles' = all_articles
    /\ all_articles' = <<>>
    /\ seen_titles' = {}
    /\ page' = 1
    /\ broke' = FALSE
    /\ pc' = IF fn = "gazeta" THEN "gazeta_returned" ELSE "rank"
    /\ UNCHANGED <<varsSearch, rss_articles, html_articles, varsRequest, sec,
                   section_articles, seen_urls, html_log, varsPipeline, varsServices>>

\* The rest of the search function: merge, normalize the query, rank.
MergeAndRank ==
    /\ pc = "rank"
    /\ LET pool == MergeOkolicaSources(rss_articles, html_articles, gazeta_articles)
           words == ExtractAndExpandQuery(query)
           r == RunSearch(pool, words, limit)
       IN  /\ articles' = pool
           /\ IF pool = <<>>
              THEN /\ result' = <<>>
                   /\ UNCHANGED <<query_words, full_match, any_match>>
              ELSE /\ query_words' = words
                   /\ result' = r.result
                   /\ full_match' = r.full_match
                   /\ any_match' = r.any_match
    /\ pc' = IF fn = "old" /\ result' = <<>> THEN "fallback" ELSE "done"
    /\ UNCHANGED <<morph, limit, varsSources, varsRequest, varsCrawl, varsPipeline,
                   varsServices>>

RECURSIVE SibokolicaArticles(_, _, _)
\* The h2 loop of _search_sibokolica: an h2 is [link, href, text, summary],
\* summary being what _extract_summary finds around it.
SibokolicaArticles(arts, hits, lim) ==
    IF hits = <<>> THEN arts
    ELSE LET h == Head(hits)
             href == IF StartsWith(h.href, S_http_prefix) THEN h.href
                     ELSE SITE_URL \o (IF StartsWith(h.href, S_slash) THEN h.href
                                       ELSE S_slash \o h.href)
             more == Append(arts, [title |-> StripWs(h.text), url |-> href,
                                   summary |-> h.summary])
         IN  IF ~h.link \/ h.href = <<>> \/ ~IsSubstring(S_dot_html, h.href)
             THEN SibokolicaArticles(arts, Tail(hits), lim)
             ELSE IF Len(more) >= lim THEN more
             ELSE SibokolicaArticles(more, Tail(hits), lim)

\* search_okolica_old after search_okolica_only returned nothing: the search
\* on sibokolica.ru, o being how its request ended, hits the page's h2 list.
SearchSibokolica(o, hits) ==
    /\ pc = "fallback"
    /\ result' = IF FetchFails(o) THEN <<>> ELSE SibokolicaArticles(<<>>, hits, limit)
    /\ pc' = "done"
    /\ UNCHANGED <<varsRanker, varsSources, varsRequest, varsCrawl, varsPipeline,
                   varsServices>>

(***************************************************************************)
(* What the sites answer, in the model.                                    *)
(***************************************************************************)
\* "/news/rayon/1.html"
H_rayon1 ==
    <<47, 110, 101, 119, 115, 47, 114, 97, 121, 111, 110, 47, 49, 46, 104, 116, 109, 108>>
\* "http://okolica.net/news/gorod/2.html"
H_gorod2 ==
    <<104, 116, 116, 112, 58, 47, 47, 111, 107, 111, 108, 105, 99, 97, 46, 110, 101, 116, 47,
      110, 101, 119, 115, 47, 103, 111, 114, 111, 100, 47, 50, 46, 104, 116, 109, 108>>
\* "/news/rayon/top.html"
H_top ==
    <<47, 110, 101, 119, 115, 47, 114, 97, 121, 111, 110, 47, 116, 111, 112, 46, 104, 116, 109,
      108>>
\* "/news/rayon/3.html"
H_rayon3 ==
    <<47, 110, 101, 119, 115, 47, 114, 97, 121, 111, 110, 47, 51, 46, 104, 116, 109, 108>>
\* "Cup final [...]"
X_CupFinalEllipsis ==
    <<67, 117, 112, 32, 102, 105, 110, 97, 108, 32, 91, 46, 46, 46, 93>>
X_DayOfTown == <<32, 32, 68, 97, 121, 32, 111, 102, 32, 116, 111, 119, 110>>   \* "  Day of town"
X_TopNews == <<84, 111, 112, 32, 110, 101, 119, 115>>   \* "Top news"
X_Cup == <<67, 117, 112>>   \* "Cup"
\* "http://okolica.net/news/rayon/1.html/"
L_rayon1 ==
    <<104, 116, 116, 112, 58, 47, 47, 111, 107, 111, 108, 105, 99, 97, 46, 110, 101, 116, 47,
      110, 101, 119, 115, 47, 114, 97, 121, 111, 110, 47, 49, 46, 104, 116, 109, 108, 47>>
\* " /news/foto/7.html"
L_foto7 ==
    <<32, 47, 110, 101, 119, 115, 47, 102, 111, 116, 111, 47, 55, 46, 104, 116, 109, 108>>
\* "/gazeta/1.html"
L_gazeta1 ==
    <<47, 103, 97, 122, 101, 116, 97, 47, 49, 46, 104, 116, 109, 108>>
X_CupFinal == <<67, 117, 112, 32, 102, 105, 110, 97, 108>>   \* "Cup final"
X_AboutCup == <<65, 98, 111, 117, 116, 32, 116, 104, 101, 32, 99, 117, 112>>   \* "About the cup"
\* "the day of the cup final"
X_FullCup ==
    <<116, 104, 101, 32, 100, 97, 121, 32, 111, 102, 32, 116, 104, 101, 32, 99, 117, 112, 32,
      102, 105, 110, 97, 108>>
X_WinPhotos == <<87, 105, 110, 32, 112, 104, 111, 116, 111, 115>>   \* "Win photos"
\* "• Cup day • Win • Poems  of day"
K_bullets ==
    <<8226, 32, 67, 117, 112, 32, 100, 97, 121, 32, 8226, 32, 87, 105, 110, 32, 8226, 32, 80,
      111, 101, 109, 115, 32, 32, 111, 102, 32, 100, 97, 121>>
\* "Poems of day • Cup day"
K_repeat ==
    <<80, 111, 101, 109, 115, 32, 111, 102, 32, 100, 97, 121, 32, 8226, 32, 67, 117, 112, 32,
      100, 97, 121>>
\* "no bullets here"
K_plain ==
    <<110, 111, 32, 98, 117, 108, 108, 101, 116, 115, 32, 104, 101, 114, 101>>
Q_cup_day == <<67, 117, 112, 32, 100, 97, 121>>   \* "Cup day"
Q_stop == <<1080, 32, 1074>>   \* "и в"

\* The anchors a listing page can show: an article by a relative link, an article
\* by an absolute insecure link, a non-article path, and a title under 5 letters.
HtmlBodies ==
    { <<>>,
      << [href |-> H_rayon1, text |-> X_CupFinalEllipsis],
         [href |-> H_top, text |-> X_TopNews] >>,
      << [href |-> H_rayon3, text |-> X_Cup],
         [href |-> H_gorod2, text |-> X_DayOfTown],
         [href |-> H_rayon1, text |-> X_CupFinal] >> }

\* The feeds: one that is not well-formed XML, and two lists of items.
RssFeeds ==
    { [ok |-> FALSE, items |-> <<>>],
      [ok |-> TRUE, items |->
          << [link |-> L_rayon1, title |-> X_CupFinal, description |-> X_AboutCup,
              fulltext |-> X_FullCup],
             [link |-> L_gazeta1, title |-> X_TopNews, description |-> S_empty,
              fulltext |-> S_empty] >>],
      [ok |-> TRUE, items |->
          << [link |-> L_foto7, title |-> X_WinPhotos, description |-> S_empty,
              fulltext |-> S_empty],
             [link |-> L_rayon1, title |-> S_space, description |-> S_empty,
              fulltext |-> S_empty] >>] }

\* The texts of the block elements an archive page can show.
GazetaBodies == { <<>>, <<K_bullets, K_plain>>, <<K_repeat>> }

Q_chto_eto == <<1063, 1090, 1086, 32, 1101, 1090, 1086>>   \* "Что это"
\* "/news/1-cup.html"
G_cup ==
    <<47, 110, 101, 119, 115, 47, 49, 45, 99, 117, 112, 46, 104, 116, 109, 108>>
\* "http://sibokolica.ru/2.html"
G_abs ==
    <<104, 116, 116, 112, 58, 47, 47, 115, 105, 98, 111, 107, 111, 108, 105, 99, 97, 46, 114,
      117, 47, 50, 46, 104, 116, 109, 108>>
G_rel == <<112, 97, 103, 101, 46, 104, 116, 109, 108>>   \* "page.html"
G_about == <<47, 97, 98, 111, 117, 116>>   \* "/about"
X_TownCup == <<32, 84, 111, 119, 110, 32, 99, 117, 112, 32>>   \* " Town cup "
X_Fair == <<70, 97, 105, 114>>   \* "Fair"
\* "About the town"
X_AboutTown ==
    <<65, 98, 111, 117, 116, 32, 116, 104, 101, 32, 116, 111, 119, 110>>

Queries == {Q_cup_day, Q_stop, Q_chto_eto}

InitSearchFunction ==
    /\ pc = "rss"
    /\ fn \in {"only", "news"}
    /\ query \in Queries
    /\ limit \in {0, 1}
    /\ morph \in BOOLEAN
    /\ source_state = [x \in Sources |-> "idle"]
    /\ articles = <<>>
    /\ query_words = <<>>
    /\ full_match = <<>>
    /\ any_match = <<>>
    /\ result = <<>>
    /\ IdleSources
    /\ IdleRequest
    /\ IdleCrawl
    /\ IdleServices

NextSearchFunction ==
    \/ \E o \in MakeRequestResults : \E feed \in RssFeeds : FetchRss(o, feed)
    \/ \E o \in MakeRequestResults : \E body \in HtmlBodies : HtmlPageOk(o, body)
    \/ \E o \in MakeRequestResults : HtmlPageFails(o)
    \/ HtmlSectionReturn
    \/ HtmlReturn
    \/ \E o \in MakeRequestResults : \E body \in GazetaBodies : GazetaPageOk(o, body)
    \/ \E o \in MakeRequestResults : GazetaPageFails(o)
    \/ GazetaReturn
    \/ MergeAndRank

SpecSearchFunction == InitSearchFunction /\ [][NextSearchFunction]_vars

\* The h2 lists a result page of sibokolica.ru can show.
SibokolicaPages ==
    { <<>>,
      << [link |-> TRUE, href |-> G_about, text |-> X_Fair, summary |-> S_empty],
         [link |-> TRUE, href |-> G_cup, text |-> X_TownCup, summary |-> X_AboutTown],
         [link |-> TRUE, href |-> G_abs, text |-> X_Fair, summary |-> S_empty] >>,
      << [link |-> FALSE, href |-> S_empty, text |-> X_Fair, summary |-> S_empty],
         [link |-> TRUE, href |-> G_rel, text |-> X_Fair, summary |-> S_empty] >> }

InitSearchOld ==
    /\ pc = "rss"
    /\ fn = "old"
    /\ query \in Queries
    /\ limit \in {0, 1}
    /\ morph \in BOOLEAN
    /\ source_state = [x \in Sources |-> "idle"]
    /\ articles = <<>>
    /\ query_words = <<>>
    /\ full_match = <<>>
    /\ any_match = <<>>
    /\ result = <<>>
    /\ IdleSources
    /\ IdleRequest
    /\ IdleCrawl
    /\ IdleServices

NextSearchOld ==
    \/ NextSearchFunction
    \/ \E o \in MakeRequestResults : \E hits \in SibokolicaPages : SearchSibokolica(o, hits)

SpecSearchOld == InitSearchOld /\ [][NextSearchOld]_vars

InitHtml ==
    /\ pc = "html"
    /\ fn = "html"
    /\ query = <<>>
    /\ source_state = [x \in Sources |-> "idle"]
    /\ IdleSearch
    /\ IdleSources
    /\ IdleRequest
    /\ IdleCrawl
    /\ IdleServices

NextHtml ==
    \/ \E o \in MakeRequestResults : \E body \in HtmlBodies : HtmlPageOk(o, body)
    \/ \E o \in MakeRequestResults : HtmlPageFails(o)
    \/ HtmlSectionReturn
    \/ HtmlReturn

SpecHtml == InitHtml /\ [][NextHtml]_vars

(***************************************************************************)
(* The cron endpoint (api/cron.py): handler.do_GET checks the secret and   *)
(* the bot token and then runs run_check_and_notify, which records the     *)
(* articles that are new and notifies the subscribers of each.             *)
(***************************************************************************)
MaxCronRequests == 2

S_Bearer == <<66, 101, 97, 114, 101, 114, 32>>   \* "Bearer "
X_secret == <<115, 51>>   \* "s3"
X_token == <<116, 111, 107>>   \* "tok"
A_other == <<66, 101, 97, 114, 101, 114, 32, 115, 52>>   \* "Bearer s4"
A_lower == <<98, 101, 97, 114, 101, 114, 32, 115, 51>>   \* "bearer s3"
A_bare == <<115, 51>>   \* "s3"
A_trailing == <<66, 101, 97, 114, 101, 114, 32, 115, 51, 32>>   \* "Bearer s3 "

\* The truth value of an os.getenv result: None and "" are false.
Truthy(env) == env.set /\ env.value # <<>>

\* f"Bearer {secret}"
BearerOf(secret) == S_Bearer \o secret

\* self.headers.get("Authorization", "")
AuthorizationOf(header) == IF header.set THEN header.value ELSE <<>>

\* Mutant of Forbidden: only the scheme of the header is looked at.
ForbiddenUnlessBearer(secret, auth) == Truthy(secret) /\ ~StartsWith(auth, S_Bearer)

\* if secret: ... if auth != f"Bearer {secret}": 403
Forbidden(secret, auth) == Truthy(secret) /\ auth # BearerOf(secret.value)

N_a == [title |-> T_WinCup, url |-> U_a, summary |-> S_empty]
N_b == [title |-> T_CupDay, url |-> U_b, summary |-> S_day]
N_a2 == [title |-> T_CupDay, url |-> U_a, summary |-> S_day]

\* What fetch_latest(10) may return: [] when the fetch failed.
CronFeeds == { <<>>, <<N_a>>, <<N_a, N_b>>, <<N_b, N_a2, N_a>> }

\* What get_subscribed_users() may return.
CronUsers == { <<>>, <<1>>, <<1, 2>> }

RECURSIVE CheckAndNotify(_, _, _, _)
\* The loop of run_check_and_notify: an article whose url is stored is
\* skipped; a new one is added and sent to every user, a failed send is
\* logged and skipped.
CheckAndNotify(st, arts, users, failing) ==
    IF arts = <<>> THEN st
    ELSE LET article == Head(arts)
         IN  IF UrlStored(st.rows, article.url)
             THEN CheckAndNotify(st, Tail(arts), users, failing)
             ELSE LET r == AddArticleTo(st.rows, article.title, article.url,
                                        [given |-> TRUE, text |-> article.summary])
                      reached == { u \in Range(users) : u \notin failing }
                  IN  CheckAndNotify(
                          [rows |-> r.rows,
                           added |-> st.added \cup {article.url},
                           sent |-> st.sent \cup { <<u, article.url>> : u \in reached },
                           new_count |-> st.new_count + 1,
                           sent_count |-> st.sent_count + Cardinality(reached)],
                          Tail(arts), users, failing)

\* run_check_and_notify() from the present store.
RunCheckAndNotify(arts, users, failing) ==
    CheckAndNotify([rows |-> store, added |-> added, sent |-> sent,
                    new_count |-> 0, sent_count |-> 0], arts, users, failing)

\* handler.do_GET.  raises: run_check_and_notify raises before its loop
\* (the telegram import, init_database, get_subscribed_users or Bot()).
DoGet(header, arts, users, failing, raises) ==
    /\ pc = "cron"
    /\ cron_requests < MaxCronRequests
    /\ cron_requests' = cron_requests + 1
    /\ LET auth == AuthorizationOf(header)
       IN  IF Forbidden(cron_secret, auth)
           THEN /\ cron_req' = [auth |-> auth, status |-> 403, started |-> FALSE]
                /\ UNCHANGED <<store, added, sent>>
           ELSE IF ~Truthy(bot_token)
           THEN /\ cron_req' = [auth |-> auth, status |-> 500, started |-> FALSE]
                /\ UNCHANGED <<store, added, sent>>
           ELSE IF raises
           THEN /\ cron_req' = [auth |-> auth, status |-> 500, started |-> TRUE]
                /\ UNCHANGED <<store, added, sent>>
           ELSE LET r == RunCheckAndNotify(arts, users, failing)
                IN  /\ cron_req' = [auth |-> auth, status |-> 200, started |-> TRUE]
                    /\ store' = r.rows
                    /\ added' = r.added
                    /\ sent' = r.sent
    /\ UNCHANGED <<pc, db_ret, db_calls, cron_secret, bot_token, varsSearch, varsSources,
                   varsRequest, varsCrawl, varsPipeline, varsCache,
                   varsMatch, varsNotify>>

\* The Authorization header of a request: absent, or one of a few values.
AuthHeaders ==
    { [set |-> FALSE, value |-> <<>>] } \cup
    { [set |-> TRUE, value |-> v] :
        v \in {<<>>, BearerOf(X_secret), A_other, A_lower, A_bare, A_trailing, S_Bearer} }

\* The environment of the function: CRON_SECRET and TELEGRAM_BOT_TOKEN are
\* unset, empty or set to a value.
InitCron ==
    /\ pc = "cron"
    /\ cron_secret \in {Unset, [set |-> TRUE, value |-> <<>>], [set |-> TRUE, value |-> X_secret]}
    /\ bot_token \in {Unset, [set |-> TRUE, value |-> <<>>], [set |-> TRUE, value |-> X_token]}
    /\ cron_req = NoCronRequest
    /\ cron_requests = 0
    /\ sent = {}
    /\ fn = "none"
    /\ query = <<>>
    /\ source_state = [x \in Sources |-> "idle"]
    /\ IdleSearch
    /\ IdleSources
    /\ IdleRequest
    /\ IdleCrawl
    /\ IdleCache
    /\ IdleStore
    /\ IdleMatch
    /\ IdleNotify

NextCron ==
    \E header \in AuthHeaders : \E arts \in CronFeeds : \E users \in CronUsers :
        \E failing \in {{}, {2}} : \E raises \in BOOLEAN :
            DoGet(header, arts, users, failing, raises)

SpecCron == InitCron /\ [][NextCron]_vars

(***************************************************************************)
(* The notification check step by step.  A run (the bot's job or the cron  *)
(* endpoint) reads the latest list and the subscribers, then for each      *)
(* article asks the store, adds it and sends it to each subscriber; every  *)
(* database call and every send is a step of its own, so runs that share   *)
(* the store can interleave.  /latest and the "latest" button store what   *)
(* they show.                                                              *)
(***************************************************************************)
RECURSIVE SubscribedFrom(_, _)
\* The telegram_ids from u on whose row has is_subscribed = 1.
SubscribedFrom(table, u) ==
    IF u > MaxUsers THEN <<>>
    ELSE (IF table[u].known /\ table[u].subscribed THEN <<u>> ELSE <<>>)
         \o SubscribedFrom(table, u + 1)

\* get_subscribed_users(): SELECT telegram_id FROM users WHERE is_subscribed = 1
\* (the query has no ORDER BY; the ids are listed in ascending order here).
GetSubscribedUsers(table) == SubscribedFrom(table, 1)

\* add_user: a new row gets is_subscribed DEFAULT 1; on conflict only the
\* names are updated.
AddUser(table, u) ==
    IF table[u].known THEN table
    ELSE [table EXCEPT ![u] = [known |-> TRUE, subscribed |-> TRUE]]

\* set_subscription: UPDATE users SET is_subscribed = ? WHERE telegram_id = ?
SetSubscription(table, u, subscribed) ==
    IF table[u].known THEN [table EXCEPT ![u].subscribed = subscribed] ELSE table

\* The run after fetch_latest(10) and get_subscribed_users().
StartedRun(kind, arts, subscribers) ==
    [at |-> IF arts = <<>> THEN "done" ELSE "exists", kind |-> kind, articles |-> arts,
     users |-> subscribers, i |-> 1, j |-> 1, new |-> <<>>]

\* The next turn of 'for article in articles'.
NextArticle(run) ==
    [run EXCEPT !.i = run.i + 1, !.j = 1,
                !.at = IF run.i + 1 > Len(run.articles) THEN "done" ELSE "exists"]

\* Mutant of AfterExists: a stored article is not skipped.
AfterExistsNoSkip(run, found) == [run EXCEPT !.at = "add"]

\* if article_exists(article["url"]): continue
AfterExists(run, found) == IF found THEN NextArticle(run) ELSE [run EXCEPT !.at = "add"]

\* After add_article, whose return value is not looked at: the message is
\* built and 'for user_id in users' begins.
AfterAdd(run) ==
    LET counted == [run EXCEPT !.new = Append(@, run.articles[run.i].url)]
    IN  IF run.users = <<>> THEN NextArticle(counted)
        ELSE [counted EXCEPT !.at = "send", !.j = 1]

\* Mutant of AfterSend: a failed send ends the loop over the users.
AfterSendBreaks(run, ok) ==
    IF ~ok \/ run.j + 1 > Len(run.users) THEN NextArticle(run)
    ELSE [run EXCEPT !.j = run.j + 1]

\* After send_message, gone through or caught by 'except Exception': the
\* next user, or the next article after the last one.
AfterSend(run, ok) ==
    IF run.j + 1 > Len(run.users) THEN NextArticle(run)
    ELSE [run EXCEPT !.j = run.j + 1]

RECURSIVE StoreLatest(_, _)
\* for a in articles: if not article_exists(a["url"]): add_article(...)
StoreLatest(rows, arts) ==
    IF arts = <<>> THEN rows
    ELSE LET a == Head(arts)
         IN  StoreLatest(IF UrlStored(rows, a.url) THEN rows
                         ELSE AddArticleTo(rows, a.title, a.url,
                                           [given |-> TRUE, text |-> a.summary]).rows,
                         Tail(arts))

\* Run 1 is the bot's job, the others are requests of the cron endpoint.
KindOf(r) == IF r = 1 THEN "job" ELSE "cron"

\* job_check_new_articles / run_check_and_notify up to the loop.
StartRun(r) ==
    /\ pc = "notify"
    /\ runs[r].at = "idle"
    /\ runs' = [runs EXCEPT ![r] = StartedRun(KindOf(r), latest, GetSubscribedUsers(users_table))]
    /\ UNCHANGED <<pc, users_table, latest, send_log, asked, varsSearch, varsSources,
                   varsRequest, varsCrawl, varsPipeline, varsCache, varsStore, varsCron,
                   varsMatch>>

\* No run is between its start and its end.
NoRunActive == \A r \in RunIds : runs[r].at \in {"idle", "done"}

\* A run that starts when no other is running.
StartRunAlone(r) == NoRunActive /\ StartRun(r)

\* The scheduler's next turn (run_repeating) or the next cron request, when
\* the run before it has ended.
StartRunAgain(r) ==
    /\ pc = "notify"
    /\ NoRunActive
    /\ runs[r].at = "done"
    /\ runs' = [runs EXCEPT ![r] = StartedRun(KindOf(r), latest, GetSubscribedUsers(users_table))]
    /\ UNCHANGED <<pc, users_table, latest, send_log, asked, varsSearch, varsSources,
                   varsRequest, varsCrawl, varsPipeline, varsCache, varsStore, varsCron,
                   varsMatch>>

\* article_exists(article["url"])
RunExists(r) ==
    /\ pc = "notify"
    /\ runs[r].at = "exists"
    /\ runs' = [runs EXCEPT ![r] =
                   AfterExists(runs[r], UrlStored(store, runs[r].articles[runs[r].i].url))]
    /\ UNCHANGED <<pc, users_table, latest, send_log, asked, varsSearch, varsSources,
                   varsRequest, varsCrawl, varsPipeline, varsCache, varsStore, varsCron,
                   varsMatch>>

\* add_article(article["title"], article["url"], article.get("summary"))
RunAdd(r) ==
    /\ pc = "notify"
    /\ runs[r].at = "add"
    /\ LET a == runs[r].articles[runs[r].i]
       IN  /\ store' = AddArticleTo(store, a.title, a.url,
                                    [given |-> TRUE, text |-> a.summary]).rows
           /\ added' = added \cup {a.url}
    /\ runs' = [runs EXCEPT ![r] = AfterAdd(runs[r])]
    /\ UNCHANGED <<pc, users_table, latest, send_log, asked, db_ret, db_calls, varsSearch,
                   varsSources, varsRequest, varsCrawl, varsPipeline, varsCache, varsCron,
                   varsMatch>>

\* bot.send_message(chat_id=user_id, ...) inside try/except Exception.
RunSend(r, ok) ==
    /\ pc = "notify"
    /\ runs[r].at = "send"
    /\ send_log' = Append(send_log, [run |-> r, user |-> runs[r].users[runs[r].j],
                                     url |-> runs[r].articles[runs[r].i].url, ok |-> ok])
    /\ runs' = [runs EXCEPT ![r] = AfterSend(runs[r], ok)]
    /\ UNCHANGED <<pc, users_table, latest, asked, varsSearch, varsSources, varsRequest,
                   varsCrawl, varsPipeline, varsCache, varsStore, varsCron, varsMatch>>

\* cmd_latest, and handle_callback with data "latest": the articles shown
\* are stored, nobody is notified.
HandleLatest ==
    /\ pc = "notify"
    /\ latest # <<>>
    /\ store' = StoreLatest(store, latest)
    /\ added' = added \cup { latest[k].url : k \in 1..Len(latest) }
    /\ UNCHANGED <<pc, db_ret, db_calls, varsNotify, varsSearch, varsSources, varsRequest,
                   varsCrawl, varsPipeline, varsCache, varsCron, varsMatch>>

\* The site shows another latest list.
SiteChanges(shown) ==
    /\ pc = "notify"
    /\ shown # latest
    /\ latest' = shown
    /\ UNCHANGED <<pc, users_table, runs, send_log, asked, varsSearch, varsSources,
                   varsRequest, varsCrawl, varsPipeline, varsCache, varsStore, varsCron,
                   varsMatch>>

\* cmd_start: add_user(user.id, ...)
CmdStart(u) ==
    /\ pc = "users"
    /\ db_calls < MaxDbCalls
    /\ db_calls' = db_calls + 1
    /\ users_table' = AddUser(users_table, u)
    /\ UNCHANGED <<pc, latest, runs, send_log, asked, store, added, db_ret, varsSearch,
                   varsSources, varsRequest, varsCrawl, varsPipeline, varsCache, varsCron,
                   varsMatch>>

\* cmd_subscribe: set_subscription(user_id, True), then the confirmation.
CmdSubscribe(u) ==
    /\ pc = "users"
    /\ db_calls < MaxDbCalls
    /\ db_calls' = db_calls + 1
    /\ users_table' = SetSubscription(users_table, u, TRUE)
    /\ asked' = [asked EXCEPT ![u] = "subscribe"]
    /\ UNCHANGED <<pc, latest, runs, send_log, store, added, db_ret, varsSearch,
                   varsSources, varsRequest, varsCrawl, varsPipeline, varsCache, varsCron,
                   varsMatch>>

\* cmd_unsubscribe: set_subscription(user_id, False), then the confirmation.
CmdUnsubscribe(u) ==
    /\ pc = "users"
    /\ db_calls < MaxDbCalls
    /\ db_calls' = db_calls + 1
    /\ users_table' = SetSubscription(users_table, u, FALSE)
    /\ asked' = [asked EXCEPT ![u] = "unsubscribe"]
    /\ UNCHANGED <<pc, latest, runs, send_log, store, added, db_ret, varsSearch,
                   varsSources, varsRequest, varsCrawl, varsPipeline, varsCache, varsCron,
                   varsMatch>>

\* The rows the table users can hold for a telegram_id that has one.
UserRows == { [known |-> TRUE, subscribed |-> TRUE], [known |-> TRUE, subscribed |-> FALSE] }

\* The store is new; the site shows some list and every user has sent
\* /start, some have unsubscribed.
InitNotify ==
    /\ pc = "notify"
    /\ users_table \in [UserIds -> UserRows]
    /\ latest \in CronFeeds
    /\ runs = [r \in RunIds |-> IdleRun]
    /\ send_log = <<>>
    /\ asked = [u \in UserIds |-> "none"]
    /\ fn = "none"
    /\ query = <<>>
    /\ source_state = [x \in Sources |-> "idle"]
    /\ IdleSearch
    /\ IdleSources
    /\ IdleRequest
    /\ IdleCrawl
    /\ IdleCache
    /\ IdleStore
    /\ IdleCron
    /\ IdleMatch

\* Runs that do not overlap: each starts when the one before it has ended.
NextNotifySequential ==
    \/ \E r \in RunIds : StartRunAlone(r)
    \/ \E r \in RunIds : RunExists(r)
    \/ \E r \in RunIds : RunAdd(r)
    \/ \E r \in RunIds : \E ok \in BOOLEAN : RunSend(r, ok)
    \/ HandleLatest
    \/ \E shown \in CronFeeds : SiteChanges(shown)

SpecNotifySequential == InitNotify /\ [][NextNotifySequential]_vars

\* Runs that may overlap: two cron requests, or a cron request and the job.
NextNotifyOverlap ==
    \/ \E r \in RunIds : StartRun(r)
    \/ \E r \in RunIds : RunExists(r)
    \/ \E r \in RunIds : RunAdd(r)
    \/ \E r \in RunIds : \E ok \in BOOLEAN : RunSend(r, ok)
    \/ \E shown \in CronFeeds : SiteChanges(shown)

SpecNotifyOverlap == InitNotify /\ [][NextNotifyOverlap]_vars

\* The steps of the job: the scheduler starts it every
\* JOB_CHECK_INTERVAL_MINUTES and each step of a run ends.
JobStep ==
    \/ StartRunAlone(1)
    \/ StartRunAgain(1)
    \/ RunExists(1)
    \/ RunAdd(1)
    \/ RunSend(1, TRUE)

\* The job comes again and again, every send goes through and the site keeps
\* its list; /latest is handled at any time.
NextNotifyRepeating == JobStep \/ HandleLatest

SpecNotifyRepeating == InitNotify /\ [][NextNotifyRepeating]_vars /\ WF_vars(JobStep)

\* The commands on the table users, from the empty table.
InitSubscription ==
    /\ pc = "users"
    /\ fn = "none"
    /\ query = <<>>
    /\ source_state = [x \in Sources |-> "idle"]
    /\ IdleSearch
    /\ IdleSources
    /\ IdleRequest
    /\ IdleCrawl
    /\ IdleServices

NextSubscription ==
    \/ \E u \in UserIds : CmdStart(u)
    \/ \E u \in UserIds : CmdSubscribe(u)
    \/ \E u \in UserIds : CmdUnsubscribe(u)

SpecSubscription == InitSubscription /\ [][NextSubscription]_vars

(***************************************************************************)
(* The archive adapter under study: _fetch_okolica_gazeta is called on its *)
(* own and the archive answers each page with one of a few bodies, the     *)
(* block of the example among them.                                        *)
(***************************************************************************)
\* "• Выпуск 12 • Интервью с мэром • short"
K_example ==
    <<8226, 32, 1042, 1099, 1087, 1091, 1089, 1082, 32, 49, 50, 32, 8226, 32, 1048, 1085, 1090,
      1077, 1088, 1074, 1100, 1102, 32, 1089, 32, 1084, 1101, 1088, 1086, 1084, 32, 8226, 32,
      115, 104, 111, 114, 116>>
\* "• abc • Редакция"
K_three ==
    <<8226, 32, 97, 98, 99, 32, 8226, 32, 1056, 1077, 1076, 1072, 1082, 1094, 1080, 1103>>
T_Vypusk12 == <<1042, 1099, 1087, 1091, 1089, 1082, 32, 49, 50>>   \* "Выпуск 12"
\* "Интервью с мэром"
T_Intervyu ==
    <<1048, 1085, 1090, 1077, 1088, 1074, 1100, 1102, 32, 1089, 32, 1084, 1101, 1088, 1086, 1084>>
T_short == <<115, 104, 111, 114, 116>>   \* "short"
T_abc == <<97, 98, 99>>   \* "abc"
T_Redakciya == <<1056, 1077, 1076, 1072, 1082, 1094, 1080, 1103>>   \* "Редакция"

\* "• Выпуск 13 • Письма читателей"
K_issue ==
    <<8226, 32, 1042, 1099, 1087, 1091, 1089, 1082, 32, 49, 51, 32, 8226, 32, 1055, 1080, 1089,
      1100, 1084, 1072, 32, 1095, 1080, 1090, 1072, 1090, 1077, 1083, 1077, 1081>>

K_tiny == <<8226, 32, 1042, 1099, 1087, 1091, 1089, 1082>>   \* "• Выпуск"
\* "• cup day • CUP DAY"
K_case ==
    <<8226, 32, 99, 117, 112, 32, 100, 97, 121, 32, 8226, 32, 67, 85, 80, 32, 68, 65, 89>>
T_Vypusk == <<1042, 1099, 1087, 1091, 1089, 1082>>   \* "Выпуск"
T_cup_day == <<99, 117, 112, 32, 100, 97, 121>>   \* "cup day"
T_CUP_DAY == <<67, 85, 80, 32, 68, 65, 89>>   \* "CUP DAY"

ArchiveBodies ==
    GazetaBodies \cup { <<K_example>>, <<K_three>>, <<K_bullets, K_example>>,
                        <<K_three, K_example, K_plain>>, <<K_repeat, K_example>>,
                        <<K_three, K_bullets>>, <<K_example, K_three>>,
                        <<K_three, K_repeat>>, <<K_example, K_bullets>>,
                        <<K_issue>>, <<K_issue, K_example>>, <<K_tiny, K_case, K_bullets>> }

InitGazeta ==
    /\ pc = "gazeta"
    /\ fn = "gazeta"
    /\ query = <<>>
    /\ source_state = [x \in Sources |-> "idle"]
    /\ IdleSearch
    /\ IdleSources
    /\ IdleRequest
    /\ IdleCrawl
    /\ IdleServices

NextGazeta ==
    \/ \E o \in MakeRequestResults : \E body \in ArchiveBodies : GazetaPageOk(o, body)
    \/ \E o \in MakeRequestResults : GazetaPageFails(o)
    \/ GazetaReturn

SpecGazeta == InitGazeta /\ [][NextGazeta]_vars

(***************************************************************************)
(* The lemma cache under the thread pool: run_blocking hands every search  *)
(* to loop.run_in_executor, so _get_lemma calls of several searches        *)
(* interleave between their operations on the shared dict.                 *)
(***************************************************************************)
\* _LEMMA_CACHE_MAX, scaled down: the number of keys at which the cache is
\* cleared before the next insert.
LEMMA_CACHE_MAX == 2

\* The words the searches look up.
LemmaWords == {S_win, S_won, S_cup, T_CupDay}

\* _lemma_cache is a dict; membership, len, clear, store and lookup do not
\* depend on the order of its keys, so it is a function on its key set.
CacheHas(w) == w \in DOMAIN lemma_cache

CacheStore(w, v) ==
    [x \in (DOMAIN lemma_cache) \cup {w} |-> IF x = w THEN v ELSE lemma_cache[x]]

\* _lemma_cache.clear()
CacheCleared == <<>>

\* A thread enters _get_lemma(word): w = word.lower().
CallGetLemma(t, word) ==
    /\ pc = "threads"
    /\ calls[t].at \in {"idle", "done", "keyerror"}
    /\ calls' = [calls EXCEPT ![t] = [at |-> "test", w |-> Lower(word), ret |-> <<>>]]
    /\ UNCHANGED <<pc, lemma_cache, varsSearch, varsSources, varsRequest, varsCrawl,
                   varsStore, varsCron,
                   varsMatch, varsNotify,
                   varsPipeline>>

\* if w not in _lemma_cache:
TestCached(t) ==
    /\ pc = "threads"
    /\ calls[t].at = "test"
    /\ calls' = [calls EXCEPT ![t].at = IF CacheHas(calls[t].w) THEN "read" ELSE "full"]
    /\ UNCHANGED <<pc, lemma_cache, varsSearch, varsSources, varsRequest, varsCrawl,
                   varsStore, varsCron,
                   varsMatch, varsNotify,
                   varsPipeline>>

\* Mutant of TestFull: the cache is never found full.
TestFullNever(t) ==
    /\ pc = "threads"
    /\ calls[t].at = "full"
    /\ calls' = [calls EXCEPT ![t].at = "store"]
    /\ UNCHANGED <<pc, lemma_cache, varsSearch, varsSources, varsRequest, varsCrawl,
                   varsStore, varsCron,
                   varsMatch, varsNotify,
                   varsPipeline>>

\* if len(_lemma_cache) >= _LEMMA_CACHE_MAX:
TestFull(t) ==
    /\ pc = "threads"
    /\ calls[t].at = "full"
    /\ calls' = [calls EXCEPT ![t].at =
                    IF Cardinality(DOMAIN lemma_cache) >= LEMMA_CACHE_MAX
                    THEN "clear" ELSE "store"]
    /\ UNCHANGED <<pc, lemma_cache, varsSearch, varsSources, varsRequest, varsCrawl,
                   varsStore, varsCron,
                   varsMatch, varsNotify,
                   varsPipeline>>

\* _lemma_cache.clear()
ClearCache(t) ==
    /\ pc = "threads"
    /\ calls[t].at = "clear"
    /\ lemma_cache' = CacheCleared
    /\ calls' = [calls EXCEPT ![t].at = "store"]
    /\ UNCHANGED <<pc, varsSearch, varsSources, varsRequest, varsCrawl, varsPipeline,
                   varsStore, varsCron,
                   varsMatch, varsNotify>>

\* _lemma_cache[w] = _normalize_word(w)
StoreLemma(t) ==
    /\ pc = "threads"
    /\ calls[t].at = "store"
    /\ lemma_cache' = CacheStore(calls[t].w, NormalizeWord(calls[t].w))
    /\ calls' = [calls EXCEPT ![t].at = "read"]
    /\ UNCHANGED <<pc, varsSearch, varsSources, varsRequest, varsCrawl, varsPipeline,
                   varsStore, varsCron,
                   varsMatch, varsNotify>>

\* return _lemma_cache[w]: the lookup raises KeyError when the key is gone.
ReadLemma(t) ==
    /\ pc = "threads"
    /\ calls[t].at = "read"
    /\ calls' = [calls EXCEPT ![t] =
                    IF CacheHas(calls[t].w)
                    THEN [at |-> "done", w |-> calls[t].w, ret |-> lemma_cache[calls[t].w]]
                    ELSE [at |-> "keyerror", w |-> calls[t].w, ret |-> <<>>]]
    /\ UNCHANGED <<pc, lemma_cache, varsSearch, varsSources, varsRequest, varsCrawl,
                   varsStore, varsCron,
                   varsMatch, varsNotify,
                   varsPipeline>>

InitLemma ==
    /\ pc = "threads"
    /\ morph \in BOOLEAN
    /\ articles = <<>>
    /\ query_words = <<>>
    /\ limit = 0
    /\ full_match = <<>>
    /\ any_match = <<>>
    /\ result = <<>>
    /\ IdleSources
    /\ IdleRequest
    /\ IdleCrawl
    /\ IdlePipeline
    /\ IdleCache
    /\ IdleStore
    /\ IdleCron
    /\ IdleMatch
    /\ IdleNotify

NextLemma ==
    \E t \in Threads :
        \/ \E word \in LemmaWords : CallGetLemma(t, word)
        \/ TestCached(t)
        \/ TestFull(t)
        \/ ClearCache(t)
        \/ StoreLemma(t)
        \/ ReadLemma(t)

SpecLemma == InitLemma /\ [][NextLemma]_vars

\* Sequential callers: a call of _get_lemma starts only when no other call
\* is under way.
CallGetLemmaAlone(t, word) ==
    /\ \A u \in Threads : calls[u].at \in {"idle", "done", "keyerror"}
    /\ CallGetLemma(t, word)

NextLemmaSequential ==
    \E t \in Threads :
        \/ \E word \in LemmaWords : CallGetLemmaAlone(t, word)
        \/ TestCached(t)
        \/ TestFull(t)
        \/ ClearCache(t)
        \/ StoreLemma(t)
        \/ ReadLemma(t)

SpecLemmaSequential == InitLemma /\ [][NextLemmaSequential]_vars

C8_RaisesLast ==
    /\ pc = "raised" =>
          /\ Len(gets) = 3
          /\ gets[3].kind = "error"
          /\ raised = gets[3].err
    /\ pc # "raised" => raised = "None"

\* C8 happens: a 503, a failure and another kind of failure; the last one
\* was raised.
C8_Witness ==
    /\ pc = "raised"
    /\ gets[1].kind = "response" /\ gets[1].status = 503
    /\ gets[2].kind = "error"
    /\ gets[3].kind = "error"
    /\ gets[2].err # gets[3].err
    /\ raised = gets[3].err

(***************************************************************************)
(* Properties of the ranker.                                               *)
(***************************************************************************)
\* The pool positions that match every term, and those that match some term.
FullIdx == { i \in 1..Len(articles) : AllMatch(query_words, articles[i]) }

SomeIdx ==
    { i \in 1..Len(articles) :
        \E k \in 1..Len(query_words) :
            WordMatches(query_words[k], Searchable(articles[i])) }

\* The sorted list of the phase that produced the result.
Ranked == IF full_match # <<>> THEN full_match ELSE any_match

\* The match count of a pool record, counted term by term.
TermsMatched(a) ==
    Cardinality({ k \in 1..Len(query_words) :
                    WordMatches(query_words[k], Searchable(a)) })

\* C1: with a non-empty term list, when some pool record matches all terms the
\* any-match phase does not run and every returned record is a pool record
\* that matches all terms; a record that matches only some terms is returned
\* only when no pool record matches all of them.
C1_TwoPhase ==
    (pc = "searched" /\ query_words # <<>>) =>
        /\ FullIdx # {} =>
              /\ any_match = <<>>
              /\ Len(result) <= Len(full_match)
              /\ \A i \in 1..Len(result) :
                    /\ result[i] = Strip(full_match[i].a)
                    /\ \E j \in FullIdx : articles[j] = full_match[i].a
        /\ \A i \in 1..Len(result) :
              (\A j \in FullIdx : Strip(articles[j]) # result[i]) => FullIdx = {}

\* C1 happens: a pool holds a record that matches all terms and one that
\* matches only some, and the search returned.
C1_Witness ==
    /\ pc = "searched"
    /\ Len(query_words) = 2
    /\ FullIdx # {}
    /\ SomeIdx \ FullIdx # {}
    /\ limit >= 2
    /\ result # <<>>

\* C2: an empty term list gives the empty result, whatever the pool and limit.
C2_EmptyTerms ==
    (pc = "searched" /\ query_words = <<>>) => result = <<>>

\* C2 happens: a search with no terms over a non-empty pool has returned.
C2_Witness ==
    /\ pc = "searched"
    /\ query_words = <<>>
    /\ Len(articles) >= 2
    /\ limit >= 1

\* C3: of two adjacent results the earlier has the greater or equal match
\* count, and on equal counts the lexicographically smaller or equal title.
C3_SortOrder ==
    pc = "searched" =>
        \A i \in 1..(Len(result) - 1) :
            /\ result[i] = Strip(Ranked[i].a)
            /\ result[i + 1] = Strip(Ranked[i + 1].a)
            /\ TermsMatched(Ranked[i].a) >= TermsMatched(Ranked[i + 1].a)
            /\ TermsMatched(Ranked[i].a) = TermsMatched(Ranked[i + 1].a)
                  => StrLeq(result[i].title, result[i + 1].title)

\* C3 happens: two records with the same count came back, and the pool held
\* them in the opposite order of their titles.
C3_Witness ==
    /\ pc = "searched"
    /\ Len(result) = 2
    /\ Len(articles) = 2
    /\ TermsMatched(articles[1]) = TermsMatched(articles[2])
    /\ StrLess(articles[2].title, articles[1].title)
    /\ result[1].title = articles[2].title

\* C4: for a limit >= 0 the result has at most limit records, and it is the
\* first limit records of the sorted list of the phase that was used.
C4_Limit ==
    (pc = "searched" /\ limit >= 0) =>
        LET used == IF query_words = <<>> THEN {}
                    ELSE IF FullIdx # {} THEN FullIdx ELSE SomeIdx
        IN  /\ Len(result) <= limit
            /\ Len(Ranked) = Cardinality(used)
            /\ Len(result) = Min(limit, Cardinality(used))
            /\ \A i \in 1..Len(result) : result[i] = Strip(Ranked[i].a)

\* C4 happens: the phase list is longer than the limit and was cut to it.
C4_Witness ==
    /\ pc = "searched"
    /\ limit >= 1
    /\ Len(Ranked) > limit
    /\ Len(result) = limit

(***************************************************************************)
(* Properties of the merger.                                               *)
(***************************************************************************)
\* The positions of the pool whose record has canonical URL c.
PoolAt(c) == { k \in 1..Len(articles) : Canonical(articles[k].url) = c }

\* The last RSS record whose canonical URL is c.
LastRssAt(c) ==
    LET at == { i \in 1..Len(rss_articles) : Canonical(rss_articles[i].url) = c }
    IN  rss_articles[CHOOSE i \in at : \A k \in at : k <= i]

\* The RSS positions that are the first with their canonical URL.
RssFirst ==
    { i \in 1..Len(rss_articles) :
        \A k \in 1..(i - 1) :
            Canonical(rss_articles[k].url) # Canonical(rss_articles[i].url) }

\* The HTML positions whose canonical URL no RSS record and no earlier HTML
\* record has.
HtmlNew ==
    { j \in 1..Len(html_articles) :
        /\ \A i \in 1..Len(rss_articles) :
              Canonical(rss_articles[i].url) # Canonical(html_articles[j].url)
        /\ \A k \in 1..(j - 1) :
              Canonical(html_articles[k].url) # Canonical(html_articles[j].url) }

\* The place of position i among the positions of S, counted from 1.
RankIn(S, i) == Cardinality({ k \in S : k <= i })

\* C5 as stated: for every RSS record r and HTML record h with one canonical
\* URL, the pool holds exactly one record of that URL and it is r.
C5_AsStated ==
    pc = "merged" =>
        \A i \in 1..Len(rss_articles) : \A j \in 1..Len(html_articles) :
            Canonical(rss_articles[i].url) = Canonical(html_articles[j].url) =>
                /\ Cardinality(PoolAt(Canonical(rss_articles[i].url))) = 1
                /\ \A k \in PoolAt(Canonical(rss_articles[i].url)) :
                      articles[k] = rss_articles[i]

\* C5, amended: for every RSS record r and HTML record h with one canonical
\* URL, the pool holds exactly one record of that URL, and it is an RSS
\* record with its fulltext: the last RSS record that has this canonical URL.
C5_RssWins ==
    pc = "merged" =>
        \A i \in 1..Len(rss_articles) : \A j \in 1..Len(html_articles) :
            LET c == Canonical(rss_articles[i].url)
            IN  c = Canonical(html_articles[j].url) =>
                    /\ Cardinality(PoolAt(c)) = 1
                    /\ \A k \in PoolAt(c) :
                          /\ articles[k] = LastRssAt(c)
                          /\ articles[k].fulltext = LastRssAt(c).fulltext
                          /\ articles[k] # html_articles[j]

\* C5 happens: an HTML record and the second RSS record differ in scheme or
\* trailing slash only, and the merged pool holds the RSS record.
C5_Witness ==
    /\ pc = "merged"
    /\ Len(rss_articles) = 2
    /\ Len(html_articles) = 2
    /\ Canonical(rss_articles[1].url) # Canonical(rss_articles[2].url)
    /\ Canonical(rss_articles[2].url) = Canonical(html_articles[1].url)
    /\ rss_articles[2].url # html_articles[1].url
    /\ articles[2] = rss_articles[2]

\* C6 as stated: the pool is all RSS records in input order, then the new
\* HTML records in first-seen order, then all archive records in input order.
C6_AsStated ==
    pc = "merged" =>
        /\ Len(articles) =
              Len(rss_articles) + Cardinality(HtmlNew) + Len(gazeta_articles)
        /\ \A i \in 1..Len(rss_articles) : articles[i] = rss_articles[i]
        /\ \A j \in HtmlNew :
              articles[Len(rss_articles) + RankIn(HtmlNew, j)] = html_articles[j]
        /\ \A g \in 1..Len(gazeta_articles) :
              articles[Len(rss_articles) + Cardinality(HtmlNew) + g]
                  = gazeta_articles[g]

\* C6, amended: the pool is the RSS records in input order, RSS records of
\* one canonical URL collapsed into the last of them at the place of the
\* first; then the HTML records whose canonical URL is not yet present, in
\* first-seen order; then every archive record in input order, none dropped.
C6_MergeOrder ==
    pc = "merged" =>
        LET n == Cardinality(RssFirst)
            m == Cardinality(HtmlNew)
        IN  /\ Len(articles) = n + m + Len(gazeta_articles)
            /\ \A i \in RssFirst :
                  articles[RankIn(RssFirst, i)]
                      = LastRssAt(Canonical(rss_articles[i].url))
            /\ \A j \in HtmlNew :
                  articles[n + RankIn(HtmlNew, j)] = html_articles[j]
            /\ \A g \in 1..Len(gazeta_articles) :
                  articles[n + m + g] = gazeta_articles[g]

\* C6 happens: two RSS records, an HTML record that is dropped and one that
\* is kept, and two archive records that share their URL, all merged.
C6_Witness ==
    /\ pc = "merged"
    /\ Len(rss_articles) = 2
    /\ Len(html_articles) = 2
    /\ Cardinality(HtmlNew) = 1
    /\ Len(gazeta_articles) = 2
    /\ gazeta_articles[1] # gazeta_articles[2]
    /\ gazeta_articles[1].url = gazeta_articles[2].url
    /\ Len(articles) = 5

(***************************************************************************)
(* Properties of the listing crawl.                                        *)
(***************************************************************************)
\* The page requests made for section i, in the order they were made.
RequestsOf(i) ==
    LET of(en) == en.sec = i
    IN  SelectSeq(html_log, of)

RECURSIVE AddedBy(_)
\* The records the logged page requests added, in order.
AddedBy(log) == IF log = <<>> THEN <<>> ELSE Head(log).added \o AddedBy(Tail(log))

\* The sections whose crawl has begun.
Begun == IF pc = "html_returned" THEN 1..Len(Sections) ELSE 1..Min(sec, Len(Sections))

\* The records the crawl holds: its output once it returned.
Gathered ==
    IF pc = "html_returned" THEN html_articles ELSE all_articles \o section_articles

\* C10: when the fetch of page p of section S fails, no page of S after p is
\* requested; the records gathered from pages 1..p-1 of S stay in the output;
\* and every other section is still crawled, from its page 1 on.
C10_SectionFailure ==
    fn = "html" =>
        /\ \A i \in 1..Len(Sections) :
              LET reqs == RequestsOf(i)
              IN  /\ \A k \in 1..Len(reqs) :
                        /\ reqs[k].page = k
                        /\ ~reqs[k].ok => k = Len(reqs)
                  /\ (i \in Begun /\ (i # sec \/ pc = "html_returned" \/ page > 1 \/ broke))
                        => (reqs # <<>> /\ reqs[1].page = 1)
        /\ \A k \in 1..(Len(html_log) - 1) : html_log[k].sec <= html_log[k + 1].sec
        /\ Gathered = AddedBy(html_log)
        /\ pc = "html_returned" =>
              \A i \in 1..Len(Sections) : \A k \in 1..Len(RequestsOf(i)) :
                  \A n \in 1..Len(RequestsOf(i)[k].added) :
                      \E m \in 1..Len(html_articles) :
                          html_articles[m] = RequestsOf(i)[k].added[n]

\* C10 happens: page 1 of the main listing gave a record and its page 2
\* failed, though a third page was due; page 1 of the next section failed;
\* a later section gave a record; the crawl returned both records.
C10_Witness ==
    /\ pc = "html_returned"
    /\ Len(RequestsOf(1)) = 2
    /\ MaxPagesOf(1) > 2
    /\ RequestsOf(1)[1].added # <<>>
    /\ ~RequestsOf(1)[2].ok
    /\ Len(RequestsOf(2)) = 1
    /\ ~RequestsOf(2)[1].ok
    /\ \E i \in 3..Len(Sections) : \E k \in 1..Len(RequestsOf(i)) :
          RequestsOf(i)[k].added # <<>>
    /\ Len(html_articles) = 2
    /\ html_articles[1] = RequestsOf(1)[1].added[1]

(***************************************************************************)
(* Properties of the search functions.                                     *)
(***************************************************************************)
\* The sources a search function reads.
SourcesOf(f) == IF f = "only" THEN Sources ELSE {"rss", "html"}

\* Some record of the pool has the canonical URL of a.
Pooled(a) == \E k \in 1..Len(articles) : Canonical(articles[k].url) = Canonical(a.url)

\* The search function never raises; every source it reads was asked,
\* whatever became of the others; the records of every source are in the
\* merged pool; and the result is ranked out of that pool: empty only when
\* the pool is empty, no term is left, or no pool record matches a term.
MergedAndRanked ==
    /\ raised = "None"
    /\ pc # "raised"
    /\ pc = "done" =>
          LET words == ExtractAndExpandQuery(query)
          IN  /\ \A x \in SourcesOf(fn) : source_state[x] # "idle"
              /\ \A i \in 1..Len(rss_articles) : Pooled(rss_articles[i])
              /\ \A i \in 1..Len(html_articles) : Pooled(html_articles[i])
              /\ \A i \in 1..Len(gazeta_articles) :
                    \E k \in 1..Len(articles) : articles[k] = gazeta_articles[i]
              /\ \A i \in 1..Len(result) :
                    \E k \in 1..Len(articles) : result[i] = Strip(articles[k])
              /\ Len(result) <= limit
              /\ result = <<>> <=>
                    \/ articles = <<>>
                    \/ words = <<>>
                    \/ \A k \in 1..Len(articles) : \A w \in 1..Len(words) :
                          ~WordMatches(words[w], Searchable(articles[k]))

\* C9 as stated: a source that failed (the feed, a listing section, the
\* archive) contributes an empty list, the other sources are still merged
\* and ranked, and the search function never raises.
C9_AsStated ==
    /\ MergedAndRanked
    /\ source_state["rss"] = "failed" => rss_articles = <<>>
    /\ (pc = "html" /\ broke) => section_articles = <<>>
    /\ (pc = "gazeta" /\ broke) => all_articles = <<>>
    /\ source_state["gazeta"] = "failed" => gazeta_articles = <<>>

\* C9, amended: a feed that failed contributes an empty list; a listing
\* section or the archive that failed at a page contributes what its earlier
\* pages gave, which is empty when the first page failed; the other sources
\* are still merged and ranked, and the search function never raises.
C9_SourceIsolation ==
    /\ MergedAndRanked
    /\ source_state["rss"] = "failed" => rss_articles = <<>>
    /\ (pc = "html" /\ broke /\ page = 1) => section_articles = <<>>
    /\ (pc = "gazeta" /\ broke /\ page = 1) => all_articles = <<>>

\* C9 happens: the feed failed, the listing crawl met a failure, the archive
\* failed after a page that gave titles, and the search returned a record.
C9_Witness ==
    /\ pc = "done"
    /\ fn = "only"
    /\ source_state = [x \in Sources |-> "failed"]
    /\ rss_articles = <<>>
    /\ html_articles # <<>>
    /\ gazeta_articles # <<>>
    /\ result # <<>>

(***************************************************************************)
(* Properties of the lemma cache.                                          *)
(***************************************************************************)
\* C11: under every interleaving of concurrent _get_lemma calls, no call
\* meets a missing key, and a call that returned has returned the lemma of
\* its own word.
C11_CacheSafe ==
    \A t \in Threads :
        /\ calls[t].at # "keyerror"
        /\ calls[t].at = "done" => calls[t].ret = NormalizeWord(calls[t].w)

\* What the cache does keep under every interleaving: a call that returns,
\* returns the lemma of its own word, and no key maps to another word's lemma.
LemmaCacheConsistent ==
    /\ \A t \in Threads : calls[t].at = "done" => calls[t].ret = NormalizeWord(calls[t].w)
    /\ \A w \in DOMAIN lemma_cache : lemma_cache[w] = NormalizeWord(w)

\* The failing interleaving: a call has stored its lemma and not yet read
\* it, and the cache no longer holds its key.
C11_KeyGone ==
    \E t \in Threads : calls[t].at = "read" /\ ~CacheHas(calls[t].w)

(***************************************************************************)
(* Properties of the query normalizer inside the search functions.         *)
(***************************************************************************)
\* Every token of q is shorter than 2 characters or is a stop word.
OnlyDroppedTokens(q) ==
    \A i \in 1..Len(Tokens(Lower(q))) :
        Len(Tokens(Lower(q))[i]) < 2 \/ Tokens(Lower(q))[i] \in STOP_WORDS

\* C12: for a query all of whose tokens are shorter than 2 characters or stop
\* words, _extract_and_expand_query returns the empty list and the search
\* function returns no results.
C12_NoTermsNoResults ==
    (pc = "done" /\ OnlyDroppedTokens(query)) =>
        /\ ExtractAndExpandQuery(query) = <<>>
        /\ result = <<>>

\* The failing run: search_okolica_old was asked a stop-word query, its pool
\* was not empty, and it returned records.
C12_StopQueryAnswered ==
    /\ pc = "done"
    /\ fn = "old"
    /\ query = Q_chto_eto
    /\ articles # <<>>
    /\ result # <<>>

(***************************************************************************)
(* Properties of the query normalizer.                                     *)
(***************************************************************************)
\* The tokens of the query that are kept, lemmatized, in query order.
QueryLemmas ==
    LET long(w) == Len(w) >= 2
        kept(w) == w \notin STOP_WORDS
        words == SelectSeq(SelectSeq(Tokens(Lower(query)), long), kept)
    IN  [i \in 1..Len(words) |-> NormalizeWord(words[i])]

\* The place where lemma x first stands in the query.
FirstAt(x) == CHOOSE i \in 1..Len(QueryLemmas) :
                  QueryLemmas[i] = x /\ \A k \in 1..(i - 1) : QueryLemmas[k] # x

\* C13: the term list holds no term twice; the lemmas of the query come
\* first, in the order of their first occurrence in the query; every term
\* that synonym expansion added stands after all of them.
C13_NoDuplicatesLemmasFirst ==
    pc = "normalized" =>
        LET n == Cardinality(Range(QueryLemmas))
        IN  /\ \A i, j \in 1..Len(query_words) : i # j => query_words[i] # query_words[j]
            /\ Len(query_words) >= n
            /\ \A i \in 1..n : query_words[i] \in Range(QueryLemmas)
            /\ \A i, j \in 1..n : i < j => FirstAt(query_words[i]) < FirstAt(query_words[j])
            /\ \A i \in (n + 1)..Len(query_words) : query_words[i] \notin Range(QueryLemmas)

\* C13 happens: a query of two lemmas, the second a listed synonym of the
\* first, was normalized, and expansion added a further term.
C13_Witness ==
    /\ pc = "normalized"
    /\ Len(QueryLemmas) = 2
    /\ Cardinality(Range(QueryLemmas)) = 2
    /\ IsSynonymKey(QueryLemmas[1])
    /\ QueryLemmas[2] \in Range(SynonymsOf(QueryLemmas[1]))
    /\ Len(query_words) > 2

\* How often term x stands in the term list.
TimesIn(x) == Cardinality({ i \in 1..Len(query_words) : query_words[i] = x })

\* C14 as stated: normalizing "стихи" gives a term list that holds "стихи",
\* "поэзия" and "стих", the original term first.
C14_AsStated ==
    (pc = "normalized" /\ query = W_stihi) =>
        /\ {W_stihi, W_poeziya, W_stih} \subseteq Range(query_words)
        /\ query_words[1] = W_stihi

\* C14, amended: normalizing "стихи" gives exactly three terms, "стихи",
\* "поэзия" and "стих" among them; without the analyzer the original term is
\* first, with the analyzer its dictionary form "стих" is first and the
\* original term is last.
C14_StihiExpansion ==
    (pc = "normalized" /\ query = W_stihi) =>
        /\ {W_stihi, W_poeziya, W_stih} = Range(query_words)
        /\ Len(query_words) = 3
        /\ ~morph => query_words = <<W_stihi, W_poeziya, W_stih>>
        /\ morph => query_words = <<W_stih, W_poeziya, W_stihi>>

\* C14 happens: "стихи" was normalized with the analyzer at hand.
C14_Witness ==
    /\ pc = "normalized"
    /\ query = W_stihi
    /\ morph
    /\ Len(query_words) = 3

\* The entries of the synonym table that list x among their synonyms.
EntriesListing(x) == { i \in 1..Len(SYNONYMS) : x \in Range(SYNONYMS[i].syns) }

\* C15 as stated: for every lemma of the query, the key of every entry that
\* lists the lemma as a synonym stands in the term list exactly once, also
\* when the lemma is itself a key.
C15_AsStated ==
    pc = "normalized" =>
        \A x \in Range(QueryLemmas) : \A i \in EntriesListing(x) :
            TimesIn(SYNONYMS[i].key) = 1

\* C15, amended: for a lemma that is no key, the key of the first entry that
\* lists it stands in the term list exactly once; for a lemma that is a key,
\* each of its own listed synonyms stands there exactly once, and the keys
\* of other entries that list it are not added on its account.
C15_ValueRule ==
    pc = "normalized" =>
        \A x \in Range(QueryLemmas) :
            IF IsSynonymKey(x)
            THEN /\ \A y \in Range(SynonymsOf(x)) : Len(y) >= 2 => TimesIn(y) = 1
                 /\ Cardinality(Range(QueryLemmas)) = 1 =>
                       Range(query_words) = {x} \cup Range(SynonymsOf(x))
            ELSE EntriesListing(x) # {} =>
                    TimesIn(SYNONYMS[CHOOSE i \in EntriesListing(x) :
                                         \A k \in EntriesListing(x) : i <= k].key) = 1

\* C15 happens: a lemma that is no key but a listed synonym was expanded
\* with the key of its entry, which the query did not hold.
C15_Witness ==
    /\ pc = "normalized"
    /\ \E x \in Range(QueryLemmas) :
          /\ ~IsSynonymKey(x)
          /\ \E i \in EntriesListing(x) :
                /\ SYNONYMS[i].key \notin Range(QueryLemmas)
                /\ TimesIn(SYNONYMS[i].key) = 1

\* The titles of the records returned, in order.
TitlesOf(recs) == [i \in 1..Len(recs) |-> recs[i].title]

\* C16: over the pool "Победа в конкурсе", "Школьный праздник", "Дождь в
\* Татарске" the query "победа", normalized and searched, returns exactly
\* one record, "Победа в конкурсе", with the analyzer and with the lowercase
\* fallback alike.
C16_PobedaFindsOne ==
    (pc = "searched" /\ query = W_pobeda /\ articles = EndToEndPool) =>
        TitlesOf(result) = <<T_PobedaVKonkurse>>

\* C16 happens: "победа" was searched over the pool of the example under the
\* lowercase fallback, and every expanded term matched the record returned.
C16_Witness ==
    /\ pc = "searched"
    /\ query = W_pobeda
    /\ articles = EndToEndPool
    /\ ~morph
    /\ Len(query_words) = 3
    /\ Len(full_match) = 1
    /\ Len(result) = 1

\* C17 as stated: over the same pool the query "праздник школа" has no full
\* match and the search returns "Школьный праздник" and "Дождь в Татарске",
\* ordered by match count and then by title.
C17_AsStated ==
    (pc = "searched" /\ query = Q_prazdnik_shkola /\ articles = EndToEndPool
        /\ limit >= 2) =>
        /\ full_match = <<>>
        /\ Range(TitlesOf(result)) = {T_ShkolnyPrazdnik, T_DozhdVTatarske}
        /\ Len(result) = 2

\* C17, amended: over the same pool the query "праздник школа" has one full
\* match, "Школьный праздник", which every one of the six expanded terms
\* matches; the search returns exactly that record, and "Дождь в Татарске"
\* matches no term of the query.
C17_PrazdnikShkolaFullMatch ==
    (pc = "searched" /\ query = Q_prazdnik_shkola /\ articles = EndToEndPool) =>
        /\ Len(query_words) = 6
        /\ Len(full_match) = 1
        /\ TitlesOf(result) = <<T_ShkolnyPrazdnik>>
        /\ CountMatches(query_words, Searchable(R_Prazdnik)) = 6
        /\ CountMatches(query_words, Searchable(R_Dozhd)) = 0
        /\ CountMatches(query_words, Searchable(R_Pobeda)) = 0

\* C17 happens: "праздник школа" was searched over the pool of the example
\* with a limit that admits two records, and one record came back.
C17_Witness ==
    /\ pc = "searched"
    /\ query = Q_prazdnik_shkola
    /\ articles = EndToEndPool
    /\ limit >= 2
    /\ Len(result) = 1

\* The archive titles gathered so far and those the adapter has returned.
ArchiveTitles == Range(TitlesOf(all_articles)) \cup Range(TitlesOf(gazeta_articles))

\* C18 as stated: the block "• Выпуск 12 • Интервью с мэром • short" yields
\* two titles, "Выпуск 12" and "Интервью с мэром", and no third.
C18_AsStated ==
    T_Vypusk12 \in ArchiveTitles =>
        /\ T_Intervyu \in ArchiveTitles
        /\ T_short \notin ArchiveTitles

\* Where title x stands in a list of records, 0 when it is absent.
TitleAt(recs, x) ==
    IF \E i \in 1..Len(recs) : recs[i].title = x
    THEN CHOOSE i \in 1..Len(recs) : recs[i].title = x
    ELSE 0

\* The block of the example gave the list its three titles, one after the
\* other, each once.
ExampleTitlesIn(recs) ==
    LET i == TitleAt(recs, T_Vypusk12)
    IN  IF i = 0
        THEN /\ TitleAt(recs, T_Intervyu) = 0
             /\ TitleAt(recs, T_short) = 0
        ELSE /\ Len(recs) >= i + 2
             /\ recs[i + 1].title = T_Intervyu
             /\ recs[i + 2].title = T_short
             /\ \A j \in 1..Len(recs) :
                   recs[j].title \in {T_Vypusk12, T_Intervyu, T_short} => j \in i..(i + 2)

\* C18, amended: the block "• Выпуск 12 • Интервью с мэром • short" yields
\* three titles, "Выпуск 12", "Интервью с мэром" and "short", in this order:
\* the five-character fragment "short" is kept, and only a fragment shorter
\* than five characters ("abc") is dropped.
C18_ExampleBlockTitles ==
    /\ ExampleTitlesIn(all_articles)
    /\ ExampleTitlesIn(gazeta_articles)
    /\ T_abc \notin ArchiveTitles

\* C18 happens: the archive adapter has returned after reading a page with
\* the block of the example and a page with a three-character fragment.
C18_Witness ==
    /\ pc = "gazeta_returned"
    /\ T_Vypusk12 \in Range(TitlesOf(gazeta_articles))
    /\ T_short \in Range(TitlesOf(gazeta_articles))
    /\ T_Redakciya \in Range(TitlesOf(gazeta_articles))

\* No two rows of the store have one url.
OneRowPerUrl == \A i, j \in 1..Len(store) : i # j => store[i].url # store[j].url

\* C19: the article store is an idempotent sink.  add_article with a url
\* that is not stored adds exactly one row and returns its id; with a url
\* that is stored it leaves the rows as they are and returns None; at all
\* times there is at most one row per url, and article_exists answers true
\* exactly for the urls add_article has been called with.
C19_IdempotentSink ==
    /\ [](/\ OneRowPerUrl
          /\ \A url \in StoreUrls : UrlStored(store, url) <=> url \in added
          /\ db_ret.op = "exists" => (db_ret.found <=> db_ret.url \in added))
    /\ [][(db_calls' # db_calls /\ db_ret'.op = "add") =>
             IF UrlStored(store, db_ret'.url)
             THEN /\ store' = store
                  /\ db_ret'.none
             ELSE /\ Len(store') = Len(store) + 1
                  /\ SubSeq(store', 1, Len(store)) = store
                  /\ store'[Len(store')].url = db_ret'.url
                  /\ ~db_ret'.none
                  /\ db_ret'.id = store'[Len(store')].id
                  /\ \A i \in 1..Len(store) : store[i].id # db_ret'.id]_vars

\* C19 happens: two urls are stored, and an add_article with a stored url
\* has just returned None.
C19_Witness ==
    /\ db_ret.op = "add"
    /\ db_ret.none
    /\ Len(store) = 2
    /\ db_ret.url \in added

\* A step that answers a GET of the cron endpoint.
GetAnswered == cron_requests' # cron_requests

CacheSize == Cardinality(DOMAIN lemma_cache)

\* C21: under sequential calls of _get_lemma the cache never holds more than
\* _LEMMA_CACHE_MAX entries; a lookup of an uncached word with the cache at
\* the bound clears the whole cache and then inserts, leaving exactly one
\* entry; a lookup of a cached word changes nothing; every call returns
\* _normalize_word of the lowercased word.
C21_CacheBound ==
    /\ [](/\ CacheSize <= LEMMA_CACHE_MAX
          /\ \A x \in DOMAIN lemma_cache : lemma_cache[x] = NormalizeWord(x)
          /\ \A t \in Threads :
                /\ calls[t].at # "keyerror"
                /\ calls[t].at = "done" => calls[t].ret = NormalizeWord(calls[t].w)
                /\ calls[t].at \in {"clear", "store"} => ~CacheHas(calls[t].w)
                /\ calls[t].at = "clear" => CacheSize = LEMMA_CACHE_MAX)
    /\ [][\A t \in Threads :
             /\ (calls[t].at = "test" /\ CacheHas(calls[t].w) /\ calls'[t] # calls[t]) =>
                   (calls'[t].at = "read" /\ lemma_cache' = lemma_cache)
             /\ (calls[t].at = "full" /\ CacheSize = LEMMA_CACHE_MAX /\ calls'[t] # calls[t]) =>
                   calls'[t].at = "clear"
             /\ (calls[t].at = "clear" /\ calls'[t] # calls[t]) =>
                   (calls'[t].at = "store" /\ lemma_cache' = <<>>)
             /\ (calls[t].at = "store" /\ calls'[t] # calls[t]) =>
                   /\ DOMAIN lemma_cache' = DOMAIN lemma_cache \cup {calls[t].w}
                   /\ lemma_cache = <<>> => CacheSize' = 1
             /\ (calls[t].at = "read" /\ calls'[t] # calls[t]) =>
                   (calls'[t].at = "done" /\ lemma_cache' = lemma_cache)]_vars

\* C21 happens: two sequential calls have returned, and the word of the
\* earlier one is gone from the cache, which holds the word of the later one
\* alone: the later call found the cache at the bound and cleared it.
C21_Witness ==
    \E t, u \in Threads :
        /\ t # u
        /\ calls[t].at = "done"
        /\ calls[u].at = "done"
        /\ calls[t].w # calls[u].w
        /\ DOMAIN lemma_cache = {calls[t].w}

\* The terms one pass of the expansion may give for the lemmas of the query:
\* the lemmas, the listed synonyms of a lemma that is a key, and the keys
\* whose synonym list holds a lemma.
SinglePassTerms ==
    Range(QueryLemmas)
    \cup UNION { Range(SynonymsOf(x)) : x \in { y \in Range(QueryLemmas) : IsSynonymKey(y) } }
    \cup { SYNONYMS[i].key : i \in UNION { EntriesListing(x) : x \in Range(QueryLemmas) } }

\* C22: synonym expansion is a single pass.  Every term of the term list is
\* a lemma of the query, a listed synonym of a lemma that is a key, or a key
\* whose synonym list holds a lemma; appended terms are not expanded: for
\* "рассказ" the appended "очерк" does not bring in "статья".
C22_SinglePass ==
    pc = "normalized" =>
        /\ Range(query_words) \subseteq SinglePassTerms
        /\ query = W_rasskaz => query_words = <<W_rasskaz, W_istoriya, W_ocherk>>

\* C22 happens: "рассказ" was normalized and "очерк", itself a key of the
\* table, was appended.
C22_Witness ==
    /\ pc = "normalized"
    /\ query = W_rasskaz
    /\ W_ocherk \in Range(query_words)
    /\ IsSynonymKey(W_ocherk)

\* The words extracted from the lowercased text under study.
TextWords == WordsInText(Lower(text))

\* (a) the term is a literal substring of the lowercased text.
RuleSubstring == IsSubstring(term, Lower(text))

\* (b) the lemma of the term equals the lemma of word w.
RuleSameLemma(w) == GetLemma(term) = GetLemma(w)

\* (c) the term is a substring of the lemma of word w, or that lemma is a
\* substring of the term.
RuleContained(w) == IsSubstring(term, GetLemma(w)) \/ IsSubstring(GetLemma(w), term)

\* (d) both lemmas have at least 3 characters and the same first 3.
RulePrefix(w) ==
    /\ Len(GetLemma(term)) >= 3
    /\ Len(GetLemma(w)) >= 3
    /\ SubSeq(GetLemma(term), 1, 3) = SubSeq(GetLemma(w), 1, 3)

\* C23: _word_matches returns true if and only if (a) the term is a literal
\* substring of the lowercased text, or for some word extracted from the
\* text (b) the lemmas are equal, or (c) the term is a substring of the
\* word's lemma or the word's lemma a substring of the term, or (d) both
\* lemmas have at least 3 characters and the same first 3 characters.
C23_MatchingRule ==
    matches.at = "done" =>
        (matches.ret <=>
            \/ RuleSubstring
            \/ \E w \in TextWords : RuleSameLemma(w) \/ RuleContained(w) \/ RulePrefix(w))

\* C23 happens: a call returned true by the rule (c) alone, the lemma of a
\* word of the text being a substring of the term.
C23_Witness ==
    /\ matches.at = "done"
    /\ matches.ret
    /\ ~RuleSubstring
    /\ \A w \in TextWords : ~RuleSameLemma(w) /\ ~RulePrefix(w)
    /\ \E w \in TextWords : IsSubstring(GetLemma(w), term)

\* The list of the archive crawl: the local all_articles while it runs, the
\* value returned afterwards.
ArchiveList == IF pc = "gazeta_returned" THEN gazeta_articles ELSE all_articles

RECURSIVE BlocksRead(_)
\* The block texts of the pages read so far, in the order they were read.
BlocksRead(log) ==
    IF log = <<>> THEN <<>> ELSE Head(log).blocks \o BlocksRead(Tail(log))

\* The fragments between the bullets of a text, stripped.
FragmentsOf(txt) ==
    LET parts == Split(txt, 8226) IN [i \in 1..Len(parts) |-> StripWs(parts[i])]

RECURSIVE FragmentsOfAll(_, _)
\* The fragments of the blocks that hold a bullet and have at least minLen
\* characters, block after block.
FragmentsOfAll(blocks, minLen) ==
    IF blocks = <<>> THEN <<>>
    ELSE (IF 8226 \in Range(Head(blocks)) /\ Len(Head(blocks)) >= minLen
          THEN FragmentsOf(Head(blocks)) ELSE <<>>)
         \o FragmentsOfAll(Tail(blocks), minLen)

RECURSIVE DistinctInOrder(_)
\* A sequence without its repetitions: each value where it first stands.
DistinctInOrder(seq) ==
    IF seq = <<>> THEN <<>>
    ELSE LET front == DistinctInOrder(SubSeq(seq, 1, Len(seq) - 1))
             last == seq[Len(seq)]
         IN  IF last \in Range(front) THEN front ELSE Append(front, last)

AtLeastFive(x) == Len(x) >= 5

Collapsed(seq) == [i \in 1..Len(seq) |-> CollapseWs(seq[i])]

SecureNoSlash(url) == RStrip(ReplaceFirst(url, S_http, S_https), 47)

\* The part of the merged pool that comes from the RSS and HTML adapters: the
\* archive records are appended after it.
RssHtmlPool == SubSeq(articles, 1, Len(articles) - Len(gazeta_articles))

\* No two RSS/HTML-derived records of the pool have one canonical URL.
OnePerCanonicalUrl ==
    \A i, j \in 1..Len(RssHtmlPool) :
        i # j => SecureNoSlash(RssHtmlPool[i].url) # SecureNoSlash(RssHtmlPool[j].url)

\* C25 as stated: every RSS/HTML-derived record of the pool returned by
\* _merge_okolica_sources has a canonical url (https scheme, no trailing
\* slash) and no two of them have the same canonical URL.
C25_AsStated ==
    pc \in {"done", "fallback"} =>
        /\ \A i \in 1..Len(RssHtmlPool) :
              RssHtmlPool[i].url = SecureNoSlash(RssHtmlPool[i].url)
        /\ OnePerCanonicalUrl

\* C25, amended: every RSS/HTML-derived record of the pool is a record of
\* the adapters' output with the url the adapter gave it, which never begins
\* with the insecure scheme but may end in a slash; the canonical form is
\* the key of the comparison only, and no two RSS/HTML-derived records of
\* the pool have the same canonical URL.
C25_CanonicalKeys ==
    pc \in {"done", "fallback"} =>
        /\ \A i \in 1..Len(RssHtmlPool) :
              /\ RssHtmlPool[i] \in Range(rss_articles) \cup Range(html_articles)
              /\ ~StartsWith(RssHtmlPool[i].url, S_http)
        /\ OnePerCanonicalUrl

\* C25 happens: the pool holds an RSS record whose url ends in a slash, and
\* the HTML adapter brought a record of the same canonical URL, which the
\* merge left out.
C25_Witness ==
    /\ pc = "done"
    /\ \E i \in 1..Len(RssHtmlPool) :
          /\ RssHtmlPool[i] \in Range(rss_articles)
          /\ RssHtmlPool[i].url # SecureNoSlash(RssHtmlPool[i].url)
          /\ \E j \in 1..Len(html_articles) :
                SecureNoSlash(html_articles[j].url) = SecureNoSlash(RssHtmlPool[i].url)

(***************************************************************************)
(* Properties of the notification check.                                   *)
(***************************************************************************)
\* The sends of the log that went through.
Announcements == { k \in 1..Len(send_log) : send_log[k].ok }

\* The article a run is at.
ArticleOf(run) == run.articles[run.i]

\* A run that asks the store about an article whose url is stored goes on to
\* the next article: nothing is stored and nothing is sent.
StoredIsSkipped ==
    \A r \in RunIds :
        (/\ runs[r].at = "exists"
         /\ runs'[r] # runs[r]
         /\ UrlStored(store, ArticleOf(runs[r]).url))
        => /\ runs'[r].i = runs[r].i + 1
           /\ runs'[r].at \in {"exists", "done"}
           /\ runs'[r].new = runs[r].new
           /\ store' = store
           /\ send_log' = send_log

\* Every url that was sent is stored.
StoredBeforeAnnounced ==
    \A k \in 1..Len(send_log) : UrlStored(store, send_log[k].url)

\* No url was sent in two runs.
OneRunPerUrl ==
    \A k, m \in 1..Len(send_log) :
        send_log[k].url = send_log[m].url => send_log[k].run = send_log[m].run

\* C26: in a run an article whose url is stored is skipped and a new article
\* is stored before it is sent; over runs that do not overlap, each url is
\* announced in at most one run.
C26_NotifyOnceSequential ==
    /\ [](StoredBeforeAnnounced /\ OneRunPerUrl)
    /\ [][StoredIsSkipped]_vars

\* C26 happens: two runs have ended one after the other over lists that
\* share an article; the first announced it, the second added and sent
\* another one only.
C26_Witness ==
    /\ runs[1].at = "done"
    /\ runs[2].at = "done"
    /\ runs[1].new = <<U_a>>
    /\ runs[2].new = <<U_b>>
    /\ runs[2].articles = <<N_b, N_a2, N_a>>
    /\ \E k \in Announcements : send_log[k].url = U_a /\ send_log[k].run = 1
    /\ \E k \in Announcements : send_log[k].url = U_b /\ send_log[k].run = 2

\* C27: when runs overlap, no article is announced to the same subscriber
\* more than once.
C27_NotifyOnceOverlapping ==
    \A k, m \in Announcements :
        (send_log[k].url = send_log[m].url /\ send_log[k].user = send_log[m].user)
        => k = m

\* C27 fails: both runs found the url missing before either had added it,
\* both added it and both sent it to the same subscriber.
C27_SentTwice ==
    \E k, m \in Announcements :
        /\ send_log[k].run = 1
        /\ send_log[m].run = 2
        /\ send_log[k].url = send_log[m].url
        /\ send_log[k].user = send_log[m].user
        /\ send_log[k].url \in Range(runs[1].new)
        /\ send_log[k].url \in Range(runs[2].new)

\* The url has gone through to every subscriber.
AnnouncedToAll(url) ==
    \A u \in Range(GetSubscribedUsers(users_table)) :
        \E k \in Announcements : send_log[k].url = url /\ send_log[k].user = u

\* The articles the site can show.
LatestArticles == UNION { Range(shown) : shown \in CronFeeds }

\* C28: every article that is in the latest list while its url is not
\* stored is eventually announced to the subscribed users, whatever /latest
\* commands are handled in between.
C28_EventuallyAnnounced ==
    \A a \in LatestArticles :
        (a \in Range(latest) /\ ~UrlStored(store, a.url)) ~> AnnouncedToAll(a.url)

\* C28 fails: the run has gone through a list whose articles /latest had
\* stored; it found nothing new and sent nothing, though there is a
\* subscriber.
C28_NeverAnnounced ==
    /\ runs[1].at = "done"
    /\ runs[1].articles = latest
    /\ latest # <<>>
    /\ runs[1].new = <<>>
    /\ runs[1].users # <<>>
    /\ send_log = <<>>
    /\ \A k \in 1..Len(latest) : UrlStored(store, latest[k].url)

\* C29: a user whose last confirmed command is /subscribe is in
\* get_subscribed_users(), one whose last confirmed command is /unsubscribe
\* is not, whether or not /start came before.
C29_SubscriptionState ==
    \A u \in UserIds :
        /\ asked[u] = "subscribe" => u \in Range(GetSubscribedUsers(users_table))
        /\ asked[u] = "unsubscribe" => u \notin Range(GetSubscribedUsers(users_table))

\* C29 fails: /subscribe was confirmed to a user who has no row in the
\* table users, and get_subscribed_users() does not return the user.
C29_ConfirmedNotSubscribed ==
    \E u \in UserIds :
        /\ asked[u] = "subscribe"
        /\ ~users_table[u].known
        /\ u \notin Range(GetSubscribedUsers(users_table))

\* The sends of run r, in order: the user and the url.
SendsOf(r) ==
    LET ofRun(e) == e.run = r
        mine == SelectSeq(send_log, ofRun)
    IN  [k \in 1..Len(mine) |-> <<mine[k].url, mine[k].user>>]

RECURSIVE FanOut(_, _)
\* Every url of the list with every user of the list, url after url.
FanOut(urls, subscribers) ==
    IF urls = <<>> THEN <<>>
    ELSE [k \in 1..Len(subscribers) |-> <<Head(urls), subscribers[k]>>]
         \o FanOut(Tail(urls), subscribers)

\* C30: a failed send does not stop the run: when a run has ended, every
\* article it added was sent to every subscriber of the list read at its
\* start, whichever sends failed, and every article of its list is stored.
C30_FanOutIsolation ==
    \A r \in RunIds :
        runs[r].at = "done" =>
            /\ SendsOf(r) = FanOut(runs[r].new, runs[r].users)
            /\ \A k \in 1..Len(runs[r].articles) : UrlStored(store, runs[r].articles[k].url)

\* C30 happens: in a run that has ended the first send failed, the send of
\* the same article to the next subscriber went through, and the next new
\* article was sent to both.
C30_Witness ==
    \E r \in RunIds :
        /\ runs[r].at = "done"
        /\ Len(runs[r].new) = 2
        /\ Len(runs[r].users) = 2
        /\ \E k \in 1..Len(send_log) :
              /\ send_log[k].run = r
              /\ ~send_log[k].ok
              /\ \A m \in 1..(k - 1) : send_log[m].run # r
              /\ \E m \in (k + 1)..Len(send_log) :
                    /\ send_log[m].run = r
                    /\ send_log[m].ok
                    /\ send_log[m].url = send_log[k].url
              /\ \E m \in (k + 1)..Len(send_log) :
                    /\ send_log[m].run = r
                    /\ send_log[m].url # send_log[k].url
                    /\ send_log[m].user = send_log[k].user

====
